---------------------------- MODULE Spec2Model ----------------------------
(***************************************************************************)
(* A model of ktls-uring-demo: the WebSocket framing layer                 *)
(* (src/src/websocket.rs), the HTTPS request paths and the WebSocket       *)
(* connect sequence (src/src/main.rs).                                     *)
(*                                                                         *)
(* Bytes are the integers 0..255.  A Rust String is modelled as Rust       *)
(* stores it: the sequence of its UTF-8 bytes.                             *)
(***************************************************************************)
EXTENDS Integers, Sequences, FiniteSets, TLC

VARIABLES
    \* ---- frame codec harness (websocket.rs) ----
    fpc,              \* "idle" | "encoded" | "decoded" | "raw" | "oversize"
    opcode,           \* opcode handed to encode_frame
    payload,          \* payload handed to encode_frame
    close_in,         \* <<code, reason>> when the payload was built from them
    f_masked,         \* the masked argument of encode_frame
    mask_key,         \* the 4 bytes generate_mask_key returned
    frame,            \* the Vec<u8> encode_frame returned
    frame_total,      \* length of the whole frame the buffer is taken from
    data,             \* the buffer handed to decode_frame
    decoded,          \* what decode_frame returned
    \* ---- opening-handshake functions (websocket.rs) ----
    hpc,              \* "idle" | "computed" | "validated"
    hs_key,           \* the client's Sec-WebSocket-Key
    hs_accept,        \* what compute_accept_key returned for it
    hs_response,      \* the response handed to validate_handshake_response
    hs_valid,         \* what validate_handshake_response returned
    \* ---- HttpsClient::https_request (main.rs) ----
    pc,               \* the await point the request is suspended at
    path,             \* "none" | "ktls" | "fallback": the transport selected
    handshake,        \* "none" | "ok" | "failed": perform_handshake's result
    offload,          \* "none" | "ok" | "failed": configure_ktls's result
    fallback_calls,   \* calls of fallback_new_connection by this request
    fb_result,        \* what fallback_new_connection returned
    exchanged,        \* the request was written and the response read begun
    response,         \* the Vec<u8> ktls_request accumulates
    last_read,        \* the result of the latest stream.read
    result,           \* what https_request returned
    srv_chunks,       \* the response as the server delivers it, read by read
    srv_end,          \* how the stream ends: "eof" | "abrupt" | "error"
    delivered,        \* how many chunks have been read
    req,              \* number of the request in progress
    results,          \* the finished requests
    io_log,           \* <<handle, operation>>: what the request did on its sockets
    \* ---- WssClient::connect (main.rs) ----
    wpc,              \* the await point connect is suspended at
    ws_handshake,     \* "none" | "ok" | "failed": perform_handshake's result
    ws_offload,       \* "none" | "ok" | "failed": configure_ktls's result
    ws_path,          \* "none" | "ktls": the transport the stream runs on
    sec_key,          \* what generate_sec_key returned
    ws_server,        \* how the server answers the upgrade request
    ws_chunks,        \* the server's bytes, read by read
    ws_delivered,     \* how many of them have been read
    ws_response,      \* the Vec<u8> the response loop accumulates
    ws_validation,    \* "none", or what validate_handshake_response returned
    ws_result,        \* what connect returned
    ws_log,           \* <<step, outcome>>: what was done on the connection, in order
    \* ---- main's WebSocket session: send_text, receive, close (main.rs) ----
    mpc,              \* the await point main's WebSocket demo is suspended at
    ws_sent,          \* the frames handed to stream.write_all, in order
    rx_peer,          \* what the peer sends after the upgrade: its reads and its end
    rx_delivered,     \* how many of the peer's reads receive has consumed
    rx_buffer,        \* receive's buffer
    rx_decodes,       \* how many times receive has called decode_frame
    send_result,      \* what send_text returned
    rx_result,        \* what receive returned
    close_result      \* what close returned

frameVars == <<fpc, opcode, payload, close_in, f_masked, mask_key, frame, frame_total, data, decoded>>

httpsVars == <<pc, path, handshake, offload, fallback_calls, fb_result, exchanged, response,
               last_read, result, srv_chunks, srv_end, delivered, req, results, io_log>>

connVars == <<wpc, ws_handshake, ws_offload, ws_path, sec_key, ws_server, ws_chunks,
              ws_delivered, ws_response, ws_validation, ws_result>>

sessionVars == <<mpc, ws_sent, rx_peer, rx_delivered, rx_buffer, rx_decodes, send_result,
                 rx_result, close_result>>

wssVars == <<connVars, ws_log, sessionVars>>

hsVars == <<hpc, hs_key, hs_accept, hs_response, hs_valid>>

vars == <<frameVars, hsVars, httpsVars, wssVars>>

-----------------------------------------------------------------------------
(***************************************************************************)
(* Bit operations on bytes.                                                *)
(***************************************************************************)

\* F applied to the value of v, which is evaluated once, before F
Eval(v, F(_)) == CHOOSE r \in {F(x) : x \in {v}} : TRUE

\* bit k (0 = least significant) of x
Bit(x, k) == (x \div (2 ^ k)) % 2

AndBits(a, b) ==
      Bit(a, 0) * Bit(b, 0)       + Bit(a, 1) * Bit(b, 1) * 2
    + Bit(a, 2) * Bit(b, 2) * 4   + Bit(a, 3) * Bit(b, 3) * 8
    + Bit(a, 4) * Bit(b, 4) * 16  + Bit(a, 5) * Bit(b, 5) * 32
    + Bit(a, 6) * Bit(b, 6) * 64  + Bit(a, 7) * Bit(b, 7) * 128

\* AndTable[a + 1][b + 1] = a & b, computed once
AndTable ==
    [a \in 1..256 |-> ([b \in 1..256 |-> AndBits(a - 1, b - 1)] \o <<>>)] \o <<>>

And8(a, b) == AndTable[a + 1][b + 1]
Or8(a, b)  == a + b - And8(a, b)
Xor8(a, b) == a + b - 2 * And8(a, b)

-----------------------------------------------------------------------------
(***************************************************************************)
(* UTF-8, as String::from_utf8 and String::from_utf8_lossy see it.         *)
(***************************************************************************)

IsCont(x) == x >= 128 /\ x <= 191

\* the range the second byte of a 3- or 4-byte sequence must fall in
SecondLo(x) == IF x = 224 THEN 160 ELSE IF x = 240 THEN 144 ELSE 128
SecondHi(x) == IF x = 237 THEN 159 ELSE IF x = 244 THEN 143 ELSE 191

\* width announced by a lead byte, 0 when x cannot start a sequence
Width(x) ==
    IF x < 128 THEN 1
    ELSE IF x >= 194 /\ x <= 223 THEN 2
    ELSE IF x >= 224 /\ x <= 239 THEN 3
    ELSE IF x >= 240 /\ x <= 244 THEN 4
    ELSE 0

\* The chunk the decoder takes at position i: a valid scalar of len bytes, or
\* an invalid maximal prefix of len bytes (replaced by one U+FFFD).
ChunkAt(b, i) ==
    LET n == Len(b)
        x == b[i]
        w == Width(x)
        has(k) == i + k <= n
        second == has(1) /\ b[i + 1] >= SecondLo(x) /\ b[i + 1] <= SecondHi(x)
        third  == has(2) /\ IsCont(b[i + 2])
        fourth == has(3) /\ IsCont(b[i + 3])
    IN  IF w = 1 THEN [len |-> 1, valid |-> TRUE]
        ELSE IF w = 0 THEN [len |-> 1, valid |-> FALSE]
        ELSE IF ~second THEN [len |-> 1, valid |-> FALSE]
        ELSE IF w = 2 THEN [len |-> 2, valid |-> TRUE]
        ELSE IF ~third THEN [len |-> 2, valid |-> FALSE]
        ELSE IF w = 3 THEN [len |-> 3, valid |-> TRUE]
        ELSE IF ~fourth THEN [len |-> 3, valid |-> FALSE]
        ELSE [len |-> 4, valid |-> TRUE]

\* position i lies inside the chunk of a lead byte up to 3 places before it
Covered(b, i) ==
    \E j \in (i - 3)..(i - 1) :
        /\ j >= 1
        /\ Width(b[j]) >= 2
        /\ \A m \in (j + 1)..(i - 1) : IsCont(b[m])
        /\ j + ChunkAt(b, j).len > i

\* position i starts a chunk (lead, ASCII and invalid bytes always do)
IsStart(b, i) == ~IsCont(b[i]) \/ ~Covered(b, i)

\* str::from_utf8(b).is_ok()
IsValidUtf8(b) == \A i \in 1..Len(b) : IsStart(b, i) => ChunkAt(b, i).valid

ReplacementChar == <<239, 191, 189>>       \* U+FFFD in UTF-8

RECURSIVE LossyRange(_, _, _)
\* the lossy decoding of the chunks that start in positions lo..hi
LossyRange(b, lo, hi) ==
    IF lo > hi THEN <<>>
    ELSE IF lo = hi THEN
        IF ~IsStart(b, lo) THEN <<>>
        ELSE IF ChunkAt(b, lo).valid
             THEN SubSeq(b, lo, lo + ChunkAt(b, lo).len - 1)
             ELSE ReplacementChar
    ELSE LET mid == (lo + hi) \div 2
         IN  LossyRange(b, lo, mid) \o LossyRange(b, mid + 1, hi)

\* String::from_utf8_lossy(b).into_owned(), as UTF-8 bytes
from_utf8_lossy(b) == IF IsValidUtf8(b) THEN b ELSE LossyRange(b, 1, Len(b))

-----------------------------------------------------------------------------
(***************************************************************************)
(* usize / u64 values, kept as four 16-bit limbs (most significant first)  *)
(* so that a declared 64-bit frame length keeps its full width.            *)
(***************************************************************************)

U64(n) == <<0, 0, n \div 65536, n % 65536>>

\* u64::from_be_bytes
U64FromBE(b) ==
    <<b[1] * 256 + b[2], b[3] * 256 + b[4], b[5] * 256 + b[6], b[7] * 256 + b[8]>>

\* u64::to_be_bytes
U64ToBE(x) ==
    <<x[1] \div 256, x[1] % 256, x[2] \div 256, x[2] % 256,
      x[3] \div 256, x[3] % 256, x[4] \div 256, x[4] % 256>>

\* x + k for a small k: the wrapped sum and whether the addition overflowed
U64AddSmall(x, k) ==
    LET s4 == x[4] + k
        s3 == x[3] + (s4 \div 65536)
        s2 == x[2] + (s3 \div 65536)
        s1 == x[1] + (s2 \div 65536)
    IN  [sum |-> <<s1 % 65536, s2 % 65536, s3 % 65536, s4 % 65536>>,
         overflow |-> s1 >= 65536]

U64Fits(x) == x[1] = 0 /\ x[2] = 0 /\ x[3] < 16384
U64ToNat(x) == x[3] * 65536 + x[4]

\* n < x, for a buffer length n
LenLess(n, x) == ~U64Fits(x) \/ n < U64ToNat(x)

-----------------------------------------------------------------------------
(***************************************************************************)
(* websocket.rs: opcodes, messages, encode_frame, decode_frame.            *)
(***************************************************************************)

Continuation == 0
Text         == 1
Binary       == 2
Close        == 8
Ping         == 9
Pong         == 10

Opcodes == {Continuation, Text, Binary, Close, Ping, Pong}

NoOpcode == -1

\* Opcode::from_u8
from_u8(byte) == IF byte \in Opcodes THEN byte ELSE NoOpcode

\* A Message: variant with its payload; a Close carries Option<(code, reason)>.
Msg(variant, some, code, body) ==
    [variant |-> variant, some |-> some, code |-> code, body |-> body]

MsgText(text)          == Msg("Text", TRUE, 0, text)
MsgBinary(bytes)       == Msg("Binary", TRUE, 0, bytes)
MsgPing(bytes)         == Msg("Ping", TRUE, 0, bytes)
MsgPong(bytes)         == Msg("Pong", TRUE, 0, bytes)
MsgClose(code, reason) == Msg("Close", TRUE, code, reason)
MsgCloseNone           == Msg("Close", FALSE, 0, <<>>)
NoMsg                  == Msg("-", FALSE, 0, <<>>)

\* encode_frame applying the mask key one position off (mutant)
encode_frame_key_shifted(op, bytes, masked, key) ==
    LET payload_len == Len(bytes)
        mask_bit == IF masked THEN 128 ELSE 0
        first == <<Or8(128, op)>>
        len_field ==
            IF payload_len < 126 THEN
                <<Or8(mask_bit, payload_len % 256)>>
            ELSE IF payload_len < 65536 THEN
                <<Or8(mask_bit, 126),
                  (payload_len % 65536) \div 256, (payload_len % 65536) % 256>>
            ELSE
                <<Or8(mask_bit, 127)>> \o U64ToBE(U64(payload_len))
    IN  IF masked
        THEN first \o len_field \o key
               \o [i \in 1..payload_len |-> Xor8(bytes[i], key[(i % 4) + 1])]
        ELSE first \o len_field \o bytes

\* encode_frame writing the 16-bit length low byte first (mutant)
encode_frame_len16_le(op, bytes, masked, key) ==
    LET payload_len == Len(bytes)
        mask_bit == IF masked THEN 128 ELSE 0
        first == <<Or8(128, op)>>
        len_field ==
            IF payload_len < 126 THEN
                <<Or8(mask_bit, payload_len % 256)>>
            ELSE IF payload_len < 65536 THEN
                <<Or8(mask_bit, 126),
                  (payload_len % 65536) % 256, (payload_len % 65536) \div 256>>
            ELSE
                <<Or8(mask_bit, 127)>> \o U64ToBE(U64(payload_len))
    IN  IF masked
        THEN first \o len_field \o key
               \o [i \in 1..payload_len |-> Xor8(bytes[i], key[((i - 1) % 4) + 1])]
        ELSE first \o len_field \o bytes

\* encode_frame; mask_key is the value generate_mask_key() returned
encode_frame(op, bytes, masked, key) ==
    LET payload_len == Len(bytes)
        mask_bit == IF masked THEN 128 ELSE 0
        first == <<Or8(128, op)>>
        len_field ==
            IF payload_len < 126 THEN
                <<Or8(mask_bit, payload_len % 256)>>
            ELSE IF payload_len < 65536 THEN
                <<Or8(mask_bit, 126),
                  (payload_len % 65536) \div 256, (payload_len % 65536) % 256>>
            ELSE
                <<Or8(mask_bit, 127)>> \o U64ToBE(U64(payload_len))
    IN  IF masked
        THEN first \o len_field \o key
               \o [i \in 1..payload_len |-> Xor8(bytes[i], key[((i - 1) % 4) + 1])]
        ELSE first \o len_field \o bytes

\* encode_text_frame
encode_text_frame(text, key) == encode_frame(Text, text, TRUE, key)

\* encode_close_frame; code is <<>> for None and <<c>> for Some(c)
encode_close_frame(code, key) ==
    LET bytes == IF code = <<>> THEN <<>>
                 ELSE <<(code[1] \div 256) % 256, code[1] % 256>>
    IN  encode_frame(Close, bytes, TRUE, key)

NoHeader == [some |-> FALSE, opcode |-> NoOpcode, payload_len |-> U64(0), header_len |-> 0]

\* parse_frame_header taking the 126 marker as a 7-bit length (mutant)
parse_frame_header_marker_as_len(buf) ==
    IF Len(buf) < 2 THEN NoHeader
    ELSE
      LET op == from_u8(And8(buf[1], 15))
          masked == And8(buf[2], 128) # 0
          length_byte == And8(buf[2], 127)
          mask_len == IF masked THEN 4 ELSE 0
      IN  IF op = NoOpcode THEN NoHeader
          ELSE IF length_byte <= 126 THEN
              [some |-> TRUE, opcode |-> op, payload_len |-> U64(length_byte),
               header_len |-> 2 + mask_len]
          ELSE IF length_byte = 126 THEN
              IF Len(buf) < 4 THEN NoHeader
              ELSE [some |-> TRUE, opcode |-> op,
                    payload_len |-> U64(buf[3] * 256 + buf[4]),
                    header_len |-> 4 + mask_len]
          ELSE
              IF Len(buf) < 10 THEN NoHeader
              ELSE [some |-> TRUE, opcode |-> op,
                    payload_len |-> U64FromBE(SubSeq(buf, 3, 10)),
                    header_len |-> 10 + mask_len]

\* parse_frame_header
parse_frame_header(buf) ==
    IF Len(buf) < 2 THEN NoHeader
    ELSE
      LET op == from_u8(And8(buf[1], 15))
          masked == And8(buf[2], 128) # 0
          length_byte == And8(buf[2], 127)
          mask_len == IF masked THEN 4 ELSE 0
      IN  IF op = NoOpcode THEN NoHeader
          ELSE IF length_byte < 126 THEN
              [some |-> TRUE, opcode |-> op, payload_len |-> U64(length_byte),
               header_len |-> 2 + mask_len]
          ELSE IF length_byte = 126 THEN
              IF Len(buf) < 4 THEN NoHeader
              ELSE [some |-> TRUE, opcode |-> op,
                    payload_len |-> U64(buf[3] * 256 + buf[4]),
                    header_len |-> 4 + mask_len]
          ELSE
              IF Len(buf) < 10 THEN NoHeader
              ELSE [some |-> TRUE, opcode |-> op,
                    payload_len |-> U64FromBE(SubSeq(buf, 3, 10)),
                    header_len |-> 10 + mask_len]

DecodeNone  == [kind |-> "None", msg |-> NoMsg, consumed |-> 0]
DecodePanic == [kind |-> "Panic", msg |-> NoMsg, consumed |-> 0]

\* message_of answering a Ping frame with Pong and a Pong frame with Ping
\* (mutant)
message_of_ping_pong_swapped(op, bytes) ==
    IF op = Text THEN MsgText(from_utf8_lossy(bytes))
    ELSE IF op = Binary THEN MsgBinary(bytes)
    ELSE IF op = Close THEN
        IF Len(bytes) >= 2
        THEN MsgClose(bytes[1] * 256 + bytes[2],
                      IF Len(bytes) > 2
                      THEN from_utf8_lossy(SubSeq(bytes, 3, Len(bytes)))
                      ELSE <<>>)
        ELSE MsgCloseNone
    ELSE IF op = Ping THEN MsgPong(bytes)
    ELSE IF op = Pong THEN MsgPing(bytes)
    ELSE MsgBinary(bytes)

\* message_of reading the close code little-endian (mutant)
message_of_le_code(op, bytes) ==
    IF op = Text THEN MsgText(from_utf8_lossy(bytes))
    ELSE IF op = Binary THEN MsgBinary(bytes)
    ELSE IF op = Close THEN
        IF Len(bytes) >= 2
        THEN MsgClose(bytes[2] * 256 + bytes[1],
                      IF Len(bytes) > 2
                      THEN from_utf8_lossy(SubSeq(bytes, 3, Len(bytes)))
                      ELSE <<>>)
        ELSE MsgCloseNone
    ELSE IF op = Ping THEN MsgPing(bytes)
    ELSE IF op = Pong THEN MsgPong(bytes)
    ELSE MsgBinary(bytes)

\* the match on header.opcode in decode_frame
message_of(op, bytes) ==
    IF op = Text THEN MsgText(from_utf8_lossy(bytes))
    ELSE IF op = Binary THEN MsgBinary(bytes)
    ELSE IF op = Close THEN
        IF Len(bytes) >= 2
        THEN MsgClose(bytes[1] * 256 + bytes[2],
                      IF Len(bytes) > 2
                      THEN from_utf8_lossy(SubSeq(bytes, 3, Len(bytes)))
                      ELSE <<>>)
        ELSE MsgCloseNone
    ELSE IF op = Ping THEN MsgPing(bytes)
    ELSE IF op = Pong THEN MsgPong(bytes)
    ELSE MsgBinary(bytes)

\* decode_frame.  overflow_checks is the build's setting for arithmetic
\* overflow (on: the addition panics; off: it wraps).
decode_frame(buf, overflow_checks) ==
    LET header == parse_frame_header(buf)
        total == U64AddSmall(header.payload_len, header.header_len)
    IN  IF ~header.some THEN DecodeNone
        ELSE IF total.overflow /\ overflow_checks THEN DecodePanic
        ELSE IF LenLess(Len(buf), total.sum) THEN DecodeNone
        ELSE
          LET total_len == U64ToNat(total.sum)
          IN  IF header.header_len > total_len THEN DecodePanic
              ELSE
                LET raw == SubSeq(buf, header.header_len + 1, total_len)
                    masked == And8(buf[2], 128) # 0
                    mask_start == header.header_len - 4
                    bytes == IF masked
                             THEN [i \in 1..Len(raw) |->
                                     Xor8(raw[i], buf[mask_start + ((i - 1) % 4) + 1])]
                                  \o <<>>
                             ELSE raw
                IN  [kind |-> "Some", msg |-> message_of(header.opcode, bytes),
                     consumed |-> total_len]

\* decode_frame under both build profiles; they differ only when
\* header_len + payload_len overflows
decode_results(buf) == {decode_frame(buf, TRUE), decode_frame(buf, FALSE)}

-----------------------------------------------------------------------------
(***************************************************************************)
(* SHA-1 and base64, for compute_accept_key.  A 32-bit word is kept as     *)
(* <<high 16 bits, low 16 bits>>.                                          *)
(***************************************************************************)

And16(a, b) == And8(a \div 256, b \div 256) * 256 + And8(a % 256, b % 256)

W32And(a, b) == <<And16(a[1], b[1]), And16(a[2], b[2])>>
W32Or(a, b)  == <<a[1] + b[1] - And16(a[1], b[1]), a[2] + b[2] - And16(a[2], b[2])>>
W32Xor(a, b) ==
    <<a[1] + b[1] - 2 * And16(a[1], b[1]), a[2] + b[2] - 2 * And16(a[2], b[2])>>
W32Not(a)    == <<65535 - a[1], 65535 - a[2]>>

\* wrapping addition
W32Add(a, b) ==
    LET lo == a[2] + b[2]
    IN  <<(a[1] + b[1] + (lo \div 65536)) % 65536, lo % 65536>>

\* rotate left by n, 0 < n < 32
W32Rotl(a, n) ==
    LET x == IF n >= 16 THEN <<a[2], a[1]>> ELSE a
        k == n % 16
        p == 2 ^ (16 - k)
    IN  IF k = 0 THEN x
        ELSE <<(x[1] % p) * (2 ^ k) + (x[2] \div p),
               (x[2] % p) * (2 ^ k) + (x[1] \div p)>>

\* SHA-1 initial chaining value (FIPS 180-4)
Sha1Init == <<<<26437, 8961>>, <<61389, 43913>>, <<39098, 56574>>, <<4146, 21622>>, <<50130, 57840>>>>

\* the message followed by 0x80, zeros and its bit length, a multiple of 64
Sha1Pad(msg) ==
    LET n == Len(msg)
        zeros == (119 - (n % 64)) % 64
    IN  msg \o <<128>> \o [i \in 1..zeros |-> 0]
            \o U64ToBE(U64(n * 8))

RECURSIVE Sha1Expand(_, _)
\* the message schedule w extended by n more words
Sha1Expand(w, n) ==
    IF n = 1
    THEN LET t == Len(w)
         IN  Append(w, W32Rotl(W32Xor(W32Xor(w[t - 2], w[t - 7]),
                                      W32Xor(w[t - 13], w[t - 15])), 1))
    ELSE Eval(Sha1Expand(w, n \div 2), LAMBDA v : Sha1Expand(v, n - (n \div 2)))

Sha1F(t, b, c, d) ==
    IF t < 20 THEN W32Or(W32And(b, c), W32And(W32Not(b), d))
    ELSE IF t < 40 THEN W32Xor(W32Xor(b, c), d)
    ELSE IF t < 60 THEN W32Or(W32Or(W32And(b, c), W32And(b, d)), W32And(c, d))
    ELSE W32Xor(W32Xor(b, c), d)

\* the round constants 5A827999, 6ED9EBA1, 8F1BBCDC, CA62C1D6
Sha1K(t) ==
    IF t < 20 THEN <<23170, 31129>>
    ELSE IF t < 40 THEN <<28377, 60321>>
    ELSE IF t < 60 THEN <<36635, 48348>>
    ELSE <<51810, 49622>>

\* round t on the working state st = <<a, b, c, d, e>>: the new a is
\* rotl(a, 5) + f + e + k + w[t], wrapping
Sha1Round(t, st, w) ==
    LET r == W32Rotl(st[1], 5)
        f == Sha1F(t, st[2], st[3], st[4])
        k == Sha1K(t)
        lo == r[2] + f[2] + st[5][2] + k[2] + w[t + 1][2]
        hi == r[1] + f[1] + st[5][1] + k[1] + w[t + 1][1] + (lo \div 65536)
    IN  << <<hi % 65536, lo % 65536>>, st[1], W32Rotl(st[2], 30), st[3], st[4]>>

RECURSIVE Sha1Rounds(_, _, _, _)
\* rounds lo..hi-1
Sha1Rounds(lo, hi, st, w) ==
    IF hi = lo + 1 THEN Sha1Round(lo, st, w)
    ELSE Eval(Sha1Rounds(lo, (lo + hi) \div 2, st, w),
              LAMBDA s : Sha1Rounds((lo + hi) \div 2, hi, s, w))

\* the chaining value after block k (from 0) of the padded message m
Sha1Block(m, k, h) ==
    Eval([i \in 1..16 |->
             <<m[64 * k + 4 * i - 3] * 256 + m[64 * k + 4 * i - 2],
               m[64 * k + 4 * i - 1] * 256 + m[64 * k + 4 * i]>>] \o <<>>,
         LAMBDA w16 : Eval(Sha1Expand(w16, 64),
         LAMBDA w : Eval(Sha1Rounds(0, 80, h, w),
         LAMBDA st : [i \in 1..5 |-> W32Add(h[i], st[i])] \o <<>>)))

RECURSIVE Sha1Blocks(_, _, _)
\* the chaining value after the blocks of m from block k on
Sha1Blocks(m, k, h) ==
    IF 64 * k >= Len(m) THEN h
    ELSE Eval(<<k + 1, Sha1Block(m, k, h)>>, LAMBDA n : Sha1Blocks(m, n[1], n[2]))

\* Sha1::digest: the 20 bytes
Sha1(msg) ==
    Eval(Sha1Pad(msg),
         LAMBDA m : Eval(Sha1Blocks(m, 0, Sha1Init),
         LAMBDA h : [i \in 1..20 |->
            LET word == h[((i - 1) \div 4) + 1]
                half == IF ((i - 1) % 4) < 2 THEN word[1] ELSE word[2]
            IN  IF i % 2 = 1 THEN half \div 256 ELSE half % 256] \o <<>>))

\* the base64 alphabet: A-Z a-z 0-9 + /
Base64Char(v) ==
    IF v < 26 THEN 65 + v
    ELSE IF v < 52 THEN 97 + (v - 26)
    ELSE IF v < 62 THEN 48 + (v - 52)
    ELSE IF v = 62 THEN 43
    ELSE 47

\* BASE64.encode (standard alphabet, padded): character k (from 0) of the
\* group that starts at byte g of b
Base64At(b, g, k) ==
    LET n == Len(b)
        b1 == b[g]
        b2 == IF g + 1 <= n THEN b[g + 1] ELSE 0
        b3 == IF g + 2 <= n THEN b[g + 2] ELSE 0
    IN  IF k = 0 THEN Base64Char(b1 \div 4)
        ELSE IF k = 1 THEN Base64Char((b1 % 4) * 16 + (b2 \div 16))
        ELSE IF k = 2 THEN
            IF g + 1 > n THEN 61 ELSE Base64Char((b2 % 16) * 4 + (b3 \div 64))
        ELSE IF g + 2 > n THEN 61 ELSE Base64Char(b3 % 64)

Base64Encode(bytes) ==
    Eval(bytes, LAMBDA b :
        [i \in 1..(4 * ((Len(b) + 2) \div 3)) |->
            Base64At(b, 3 * ((i - 1) \div 4) + 1, (i - 1) % 4)] \o <<>>)

-----------------------------------------------------------------------------
(***************************************************************************)
(* websocket.rs: the opening handshake.  The str methods are given for     *)
(* text made of ASCII characters and U+FFFD, which is what the server      *)
(* responses considered here decode to.                                    *)
(***************************************************************************)
\* str::starts_with
starts_with(s, p) == Len(s) >= Len(p) /\ SubSeq(s, 1, Len(p)) = p

\* str::contains
contains(s, p) ==
    \E i \in 1..(Len(s) - Len(p) + 1) : SubSeq(s, i, i + Len(p) - 1) = p

\* str::to_lowercase
to_lowercase(s) ==
    [i \in 1..Len(s) |-> IF s[i] >= 65 /\ s[i] <= 90 THEN s[i] + 32 ELSE s[i]] \o <<>>

\* index of the first occurrence of byte c in s at or after a, 0 for none
FindFrom(s, c, a) ==
    IF \E i \in a..Len(s) : s[i] = c
    THEN CHOOSE i \in a..Len(s) : s[i] = c /\ \A j \in a..(i - 1) : s[j] # c
    ELSE 0

RECURSIVE LinesFrom(_, _)
\* the lines of s from index a on
LinesFrom(s, a) ==
    IF a > Len(s) THEN <<>>
    ELSE Eval(FindFrom(s, 10, a), LAMBDA nl :
             IF nl = 0 THEN <<SubSeq(s, a, Len(s))>>
             ELSE <<IF nl - 1 >= a /\ s[nl - 1] = 13
                    THEN SubSeq(s, a, nl - 2) ELSE SubSeq(s, a, nl - 1)>>
                      \o LinesFrom(s, nl + 1))

\* str::lines: the text split after each "\n"; a line loses its "\n" and a
\* "\r" before it; text after the last "\n" is a line as it stands
lines(s) == Eval(s, LAMBDA t : LinesFrom(t, 1))

\* str::split_once(':'), <<>> for None
split_once(s) ==
    LET i == FindFrom(s, 58, 1)
    IN  IF i = 0 THEN <<>> ELSE <<SubSeq(s, 1, i - 1), SubSeq(s, i + 1, Len(s))>>

\* char::is_whitespace
IsWhitespace(c) == (c >= 9 /\ c <= 13) \/ c = 32

\* str::trim
trim(s) ==
    LET keep == {i \in 1..Len(s) : ~IsWhitespace(s[i])}
    IN  IF keep = {} THEN <<>>
        ELSE SubSeq(s, CHOOSE i \in keep : \A j \in keep : i <= j,
                       CHOOSE i \in keep : \A j \in keep : i >= j)

\* generate_sec_key for a clock reading of seed nanoseconds: byte i is the
\* low byte of (seed >> i) ^ (seed >> ((i + 7) % 16)).  Only the low 23 bits
\* of the clock reach the key, and seed stands for them.
generate_sec_key(seed) ==
    Base64Encode([k \in 1..16 |->
        Xor8((seed \div (2 ^ ((k - 1) % 16))) % 256,
             (seed \div (2 ^ ((k + 6) % 16))) % 256)] \o <<>>)

\* "258EAFA5-E914-47DA-95CA-C5AB0DC85B11"
WS_GUID == <<50, 53, 56, 69, 65, 70, 65, 53, 45, 69, 57, 49, 52, 45, 52, 55, 68, 65, 45, 57, 53, 67, 65, 45, 67, 53, 65, 66, 48, 68, 67, 56, 53, 66, 49, 49>>

\* compute_accept_key hashing the GUID before the key (mutant)
compute_accept_key_guid_first(key) == Base64Encode(Sha1(WS_GUID \o key))

\* compute_accept_key: base64(SHA-1(sec_key ++ WS_GUID))
compute_accept_key(key) == Base64Encode(Sha1(key \o WS_GUID))

\* "HTTP/1.1 101"
Status101 == <<72, 84, 84, 80, 47, 49, 46, 49, 32, 49, 48, 49>>
\* "upgrade: websocket"
UpgradeWebsocket == <<117, 112, 103, 114, 97, 100, 101, 58, 32, 119, 101, 98, 115, 111, 99, 107, 101, 116>>
\* "connection: upgrade"
ConnectionUpgrade == <<99, 111, 110, 110, 101, 99, 116, 105, 111, 110, 58, 32, 117, 112, 103, 114, 97, 100, 101>>
\* "sec-websocket-accept:"
AcceptName == <<115, 101, 99, 45, 119, 101, 98, 115, 111, 99, 107, 101, 116, 45, 97, 99, 99, 101, 112, 116, 58>>

\* the find_map over response.lines(): the trimmed text after the colon of
\* the first line that starts with the accept header's name in any case,
\* as <<value>>, or <<>> for None
accept_value(resp) ==
    Eval(lines(resp), LAMBDA ls :
        LET hits == {i \in 1..Len(ls) : starts_with(to_lowercase(ls[i]), AcceptName)}
        IN  IF hits = {} THEN <<>>
            ELSE <<trim(split_once(ls[CHOOSE i \in hits : \A j \in hits : i <= j])[2])>>)

\* validate_handshake_response: "ok", or which of its errors it returns
validate_handshake_response(response_str, key) ==
    Eval(response_str, LAMBDA resp :
        IF ~starts_with(resp, Status101) THEN "Expected 101 Switching Protocols"
        ELSE Eval(to_lowercase(resp), LAMBDA lower :
            IF ~contains(lower, UpgradeWebsocket)
            THEN "Missing 'Upgrade: websocket' header"
            ELSE IF ~contains(lower, ConnectionUpgrade)
            THEN "Missing 'Connection: Upgrade' header"
            ELSE Eval(accept_value(resp), LAMBDA found :
                IF found = <<>> THEN "Missing 'Sec-WebSocket-Accept' header"
                ELSE IF found[1] # compute_accept_key(key)
                THEN "Invalid Sec-WebSocket-Accept"
                ELSE "ok")))

-----------------------------------------------------------------------------
(***************************************************************************)
(* main.rs: HttpsClient::https_request, ktls_request and                   *)
(* fallback_new_connection.  The request is a sequential task; each action *)
(* runs it from the completion of one awaited operation to the next await  *)
(* or to its return.                                                       *)
(***************************************************************************)

NoErr == [kind |-> "-", os |-> 0]

\* an io::Error: its ErrorKind and raw_os_error (0 for None)
IoError(kind, os) == [kind |-> kind, os |-> os]

EIO           == IoError("Other", 5)
UnexpectedEof == IoError("UnexpectedEof", 0)
ConnReset     == IoError("ConnectionReset", 104)
InvalidData   == IoError("InvalidData", 0)

\* the other errors a request can return
DnsError        == IoError("to_socket_addrs", 0)
ConnectError    == IoError("connect", 0)
ServerNameError == IoError("InvalidDnsNameError", 0)
HandshakeError  == IoError("perform_handshake", 0)
OffloadError    == IoError("configure_ktls", 0)
WriteError      == IoError("write_all", 0)
DupError        == IoError("dup() failed", 0)
NonblockError   == IoError("set_nonblocking", 0)
TlsNewError     == IoError("ClientConnection::new", 0)
FromUtf8Error   == IoError("FromUtf8Error", 0)

\* Result<String, Box<dyn Error>>
Ok(body) == [kind |-> "ok", body |-> body, err |-> NoErr]
Err(e)   == [kind |-> "err", body |-> <<>>, err |-> e]
NoResult == [kind |-> "none", body |-> <<>>, err |-> NoErr]

\* the io::Result<usize> of a read, with the bytes it left in the buffer
ReadOk(bytes) == [kind |-> "ok", bytes |-> bytes, err |-> NoErr]
ReadErr(e)    == [kind |-> "err", bytes |-> <<>>, err |-> e]
NoRead        == [kind |-> "none", bytes |-> <<>>, err |-> NoErr]

\* the errors a kTLS socket read reports when the peer closes without
\* close_notify
AbruptErrors == {EIO, UnexpectedEof}

RECURSIVE Flatten(_)
Flatten(chunks) ==
    IF chunks = <<>> THEN <<>> ELSE Head(chunks) \o Flatten(Tail(chunks))

\* what the next stream.read on the kTLS socket can complete with
KtlsReads(chunks, ending, n) ==
    IF n < Len(chunks) THEN {ReadOk(chunks[n + 1])}
    ELSE IF ending = "eof" THEN {ReadOk(<<>>)}
    ELSE IF ending = "abrupt" THEN {ReadErr(e) : e \in AbruptErrors}
    ELSE {ReadErr(ConnReset)}

\* read_arm taking EIO as end of stream whether or not data arrived (mutant)
read_arm_eio_always_eof(resp, r) ==
    IF r.kind = "ok" THEN
        IF Len(r.bytes) = 0
        THEN [next |-> "break", response |-> resp, err |-> NoErr]
        ELSE [next |-> "continue", response |-> resp \o r.bytes, err |-> NoErr]
    ELSE IF r.err.kind = "UnexpectedEof" THEN
        IF resp # <<>>
        THEN [next |-> "break", response |-> resp, err |-> NoErr]
        ELSE [next |-> "return", response |-> resp, err |-> r.err]
    ELSE
        IF r.err.os = 5
        THEN [next |-> "break", response |-> resp, err |-> NoErr]
        ELSE [next |-> "return", response |-> resp, err |-> r.err]

\* read_arm keeping only the latest chunk (mutant)
read_arm_overwrite(resp, r) ==
    IF r.kind = "ok" THEN
        IF Len(r.bytes) = 0
        THEN [next |-> "break", response |-> resp, err |-> NoErr]
        ELSE [next |-> "continue", response |-> r.bytes, err |-> NoErr]
    ELSE IF r.err.kind = "UnexpectedEof" THEN
        IF resp # <<>>
        THEN [next |-> "break", response |-> resp, err |-> NoErr]
        ELSE [next |-> "return", response |-> resp, err |-> r.err]
    ELSE
        IF r.err.os = 5 /\ resp # <<>>
        THEN [next |-> "break", response |-> resp, err |-> NoErr]
        ELSE [next |-> "return", response |-> resp, err |-> r.err]

\* read_arm taking every read error after data as end of stream (mutant)
read_arm_any_error_eof(resp, r) ==
    IF r.kind = "ok" THEN
        IF Len(r.bytes) = 0
        THEN [next |-> "break", response |-> resp, err |-> NoErr]
        ELSE [next |-> "continue", response |-> resp \o r.bytes, err |-> NoErr]
    ELSE IF resp # <<>>
    THEN [next |-> "break", response |-> resp, err |-> NoErr]
    ELSE [next |-> "return", response |-> resp, err |-> r.err]

\* read_arm leaving the loop after the first read that brought data (mutant)
read_arm_break_on_data(resp, r) ==
    IF r.kind = "ok" THEN
        [next |-> "break", response |-> resp \o r.bytes, err |-> NoErr]
    ELSE IF r.err.kind = "UnexpectedEof" THEN
        IF resp # <<>>
        THEN [next |-> "break", response |-> resp, err |-> NoErr]
        ELSE [next |-> "return", response |-> resp, err |-> r.err]
    ELSE
        IF r.err.os = 5 /\ resp # <<>>
        THEN [next |-> "break", response |-> resp, err |-> NoErr]
        ELSE [next |-> "return", response |-> resp, err |-> r.err]

\* the match on the read result in ktls_request's loop
read_arm(resp, r) ==
    IF r.kind = "ok" THEN
        IF Len(r.bytes) = 0
        THEN [next |-> "break", response |-> resp, err |-> NoErr]
        ELSE [next |-> "continue", response |-> resp \o r.bytes, err |-> NoErr]
    ELSE IF r.err.kind = "UnexpectedEof" THEN
        IF resp # <<>>
        THEN [next |-> "break", response |-> resp, err |-> NoErr]
        ELSE [next |-> "return", response |-> resp, err |-> r.err]
    ELSE
        IF r.err.os = 5 /\ resp # <<>>
        THEN [next |-> "break", response |-> resp, err |-> NoErr]
        ELSE [next |-> "return", response |-> resp, err |-> r.err]

\* String::from_utf8(response).map_err(|e| e.into())
from_utf8(resp) == IF IsValidUtf8(resp) THEN Ok(resp) ELSE Err(FromUtf8Error)

\* tls.read_to_string(&mut response) on the software TLS stream: the value
\* returned and the contents of response afterwards.  The stream reports a
\* close without close_notify as UnexpectedEof; bytes that are not UTF-8 are
\* removed from the string again.
read_to_string(chunks, ending) ==
    LET all == Flatten(chunks)
        io == IF ending = "eof" THEN NoErr
              ELSE IF ending = "abrupt" THEN UnexpectedEof
              ELSE ConnReset
    IN  IF IsValidUtf8(all)
        THEN [err |-> io, buf |-> all]
        ELSE [err |-> IF io = NoErr THEN InvalidData ELSE io, buf |-> <<>>]

\* fallback_read returning every read error as an error (mutant)
fallback_read_strict(chunks, ending) ==
    LET r == read_to_string(chunks, ending)
    IN  IF r.err = NoErr THEN Ok(r.buf) ELSE Err(r.err)

\* the match on read_to_string's result in fallback_new_connection
fallback_read(chunks, ending) ==
    LET r == read_to_string(chunks, ending)
    IN  IF r.err = NoErr THEN Ok(r.buf)
        ELSE IF r.err.kind = "UnexpectedEof" THEN
            IF r.buf # <<>> THEN Ok(r.buf) ELSE Err(r.err)
        ELSE Err(r.err)

\* route returning the handshake or offload error to the caller (mutant)
route_propagate(hs, off) == IF hs = "ok" /\ off = "ok" THEN "ktls" ELSE "error"

\* route going on with the socket after a failed offload installation (mutant)
route_keep_socket(hs, off) == IF hs = "ok" THEN "ktls" ELSE "fallback"

\* the match on perform_handshake and configure_ktls in https_request
route(hs, off) == IF hs = "ok" /\ off = "ok" THEN "ktls" ELSE "fallback"

\* what is remembered of a finished request whose response was read
Outcome(res) == IF res.kind = "ok" THEN <<"ok", res.body>> ELSE <<"err", <<>> >>

\* the chunks a read can deliver: "Hi", the two bytes of U+00E9 one by one,
\* and a byte that occurs in no UTF-8 text
ChunkValues == {<<72, 105>>, <<195>>, <<169>>, <<255>>}

\* how many reads the server's response may take
MaxChunks == 2

\* how many requests are made with the same server behaviour
MaxRequests == 2

RECURSIVE SeqsUpTo(_, _)
SeqsUpTo(S, n) ==
    IF n = 0 THEN {<<>>}
    ELSE SeqsUpTo(S, n - 1)
           \cup {Append(q, x) : q \in {t \in SeqsUpTo(S, n - 1) : Len(t) = n - 1}, x \in S}

RequestIdle ==
    /\ pc = "idle"
    /\ path = "none"
    /\ handshake = "none"
    /\ offload = "none"
    /\ fallback_calls = 0
    /\ fb_result = NoResult
    /\ exchanged = FALSE
    /\ response = <<>>
    /\ last_read = NoRead
    /\ result = NoResult
    /\ delivered = 0
    /\ io_log = <<>>

HttpsIdle ==
    /\ RequestIdle
    /\ srv_chunks = <<>>
    /\ srv_end = "eof"
    /\ req = 0
    /\ results = {}

HttpsInit ==
    /\ RequestIdle
    /\ srv_chunks \in SeqsUpTo(ChunkValues, MaxChunks)
    /\ srv_end \in {"eof", "abrupt", "error"}
    /\ req = 0
    /\ results = {}

\* https_request returns res
Return(res) ==
    /\ pc' = "done"
    /\ result' = res

\* https_request is called: the address is resolved and the connect submitted
HttpsRequest ==
    /\ pc = "idle"
    /\ req < MaxRequests
    /\ req' = req + 1
    /\ \E dns_ok \in BOOLEAN :
        IF dns_ok
        THEN pc' = "connect" /\ UNCHANGED result
        ELSE Return(Err(DnsError))
    /\ UNCHANGED <<path, handshake, offload, fallback_calls, fb_result, exchanged,
                   response, last_read, srv_chunks, srv_end, delivered, results, io_log>>
    /\ UNCHANGED <<frameVars, hsVars, wssVars>>

\* fallback_new_connection up to its connect: the address is resolved again
FallbackStart ==
    /\ path' = "fallback"
    /\ fallback_calls' = fallback_calls + 1
    /\ \E dns_ok \in BOOLEAN :
        IF dns_ok
        THEN pc' = "fb_connect" /\ UNCHANGED <<result, fb_result>>
        ELSE Return(Err(DnsError)) /\ fb_result' = Err(DnsError)

\* what https_request does on its TcpStream from the connect to the end of
\* the offload installation
SetupLog(hs, off) ==
    << <<"stream", "open">>,
       <<"stream", IF hs = "ok" THEN "handshake_ok" ELSE "handshake_err">> >>
      \o (IF hs # "ok" THEN <<>>
          ELSE << <<"stream", IF off = "ok" THEN "offload_ok" ELSE "offload_err">> >>)

\* the connect completes; the handshake and the offload installation run and
\* the transport is selected
ConnectDone ==
    /\ pc = "connect"
    /\ \E connect_ok, name_ok \in BOOLEAN, hs, off \in {"ok", "failed"} :
        IF ~connect_ok THEN
            Return(Err(ConnectError))
            /\ UNCHANGED <<path, handshake, offload, fallback_calls, fb_result, io_log>>
        ELSE IF ~name_ok THEN
            Return(Err(ServerNameError))
            /\ io_log' = io_log \o << <<"stream", "open">>, <<"stream", "close">> >>
            /\ UNCHANGED <<path, handshake, offload, fallback_calls, fb_result>>
        ELSE
            /\ handshake' = hs
            /\ offload' = IF hs = "ok" THEN off ELSE "none"
            /\ IF route(hs, IF hs = "ok" THEN off ELSE "none") = "ktls"
               THEN /\ path' = "ktls"
                    /\ pc' = "write"
                    /\ io_log' = io_log \o SetupLog(hs, off)
                    /\ UNCHANGED <<result, fallback_calls, fb_result>>
               ELSE IF route(hs, IF hs = "ok" THEN off ELSE "none") = "fallback"
               THEN /\ FallbackStart
                    /\ io_log' = io_log \o SetupLog(hs, off) \o << <<"stream", "close">> >>
               ELSE /\ Return(Err(IF hs = "ok" THEN OffloadError ELSE HandshakeError))
                    /\ io_log' = io_log \o SetupLog(hs, off) \o << <<"stream", "close">> >>
                    /\ UNCHANGED <<path, fallback_calls, fb_result>>
    /\ UNCHANGED <<exchanged, response, last_read, srv_chunks, srv_end, delivered,
                   req, results>>
    /\ UNCHANGED <<frameVars, hsVars, wssVars>>

\* ktls_request: the write of the request completes
KtlsWriteDone ==
    /\ pc = "write"
    /\ \E write_ok \in BOOLEAN :
        IF write_ok
        THEN /\ pc' = "read"
             /\ exchanged' = TRUE
             /\ io_log' = Append(io_log, <<"stream", "write_ok">>)
             /\ UNCHANGED result
        ELSE /\ Return(Err(WriteError))
             /\ io_log' = io_log \o << <<"stream", "write_err">>, <<"stream", "close">> >>
             /\ UNCHANGED exchanged
    /\ UNCHANGED <<path, handshake, offload, fallback_calls, fb_result, response,
                   last_read, srv_chunks, srv_end, delivered, req, results>>
    /\ UNCHANGED <<frameVars, hsVars, wssVars>>

\* ktls_request: a read completes and the loop body runs
KtlsReadDone ==
    /\ pc = "read"
    /\ \E r \in KtlsReads(srv_chunks, srv_end, delivered) :
        LET arm == read_arm(response, r)
        IN  /\ last_read' = r
            /\ response' = arm.response
            /\ delivered' = IF r.kind = "ok" /\ r.bytes # <<>>
                            THEN delivered + 1 ELSE delivered
            /\ io_log' = io_log
                   \o << <<"stream", IF r.kind = "ok" THEN "read_ok" ELSE "read_err">> >>
                   \o (IF arm.next = "continue" THEN <<>> ELSE << <<"stream", "close">> >>)
            /\ IF arm.next = "continue" THEN UNCHANGED <<pc, result>>
               ELSE IF arm.next = "break" THEN Return(from_utf8(arm.response))
               ELSE Return(Err(arm.err))
    /\ UNCHANGED <<path, handshake, offload, fallback_calls, fb_result, exchanged,
                   srv_chunks, srv_end, req, results>>
    /\ UNCHANGED <<frameVars, hsVars, wssVars>>

\* fallback_new_connection returning an error after the duplication without
\* closing the duplicate, as if the descriptor were never given an owner
\* (mutant)
FallbackLog_dup_leaked(fail, read_failed) ==
    IF fail = "connect" THEN <<>>
    ELSE IF fail = "dup" THEN << <<"fb_stream", "open">>, <<"fb_stream", "close">> >>
    ELSE << <<"fb_stream", "open">>, <<"dup_fd", "open">> >>
           \o (IF fail = "nonblocking" THEN << <<"dup_fd", "set_nonblocking_err">> >>
               ELSE << <<"dup_fd", "set_nonblocking_ok">> >>
                      \o (IF fail \in {"server_name", "tls_new"} THEN <<>>
                          ELSE IF fail = "write"
                          THEN << <<"dup_fd", "tls_stream">>, <<"dup_fd", "write_err">> >>
                          ELSE << <<"dup_fd", "tls_stream">>, <<"dup_fd", "write_ok">>,
                                  <<"dup_fd", IF read_failed THEN "read_err"
                                              ELSE "read_ok">> >>))
           \o (IF fail = "none" THEN << <<"dup_fd", "close">> >> ELSE <<>>)
           \o << <<"fb_stream", "close">> >>

\* fallback_new_connection writing the request to the duplicate before the
\* software TLS stream has taken it (mutant)
FallbackLog_plain_write(fail, read_failed) ==
    IF fail = "connect" THEN <<>>
    ELSE IF fail = "dup" THEN << <<"fb_stream", "open">>, <<"fb_stream", "close">> >>
    ELSE << <<"fb_stream", "open">>, <<"dup_fd", "open">> >>
           \o (IF fail = "nonblocking" THEN << <<"dup_fd", "set_nonblocking_err">> >>
               ELSE << <<"dup_fd", "set_nonblocking_ok">> >>
                      \o (IF fail \in {"server_name", "tls_new"} THEN <<>>
                          ELSE IF fail = "write"
                          THEN << <<"dup_fd", "write_err">>, <<"dup_fd", "tls_stream">> >>
                          ELSE << <<"dup_fd", "write_ok">>, <<"dup_fd", "tls_stream">>,
                                  <<"dup_fd", IF read_failed THEN "read_err"
                                              ELSE "read_ok">> >>))
           \o << <<"dup_fd", "close">>, <<"fb_stream", "close">> >>

\* what fallback_new_connection does on its TcpStream (fb_stream) and on the
\* duplicate of its descriptor (dup_fd) when the step named by fail fails;
\* tls_stream is StreamOwned::new taking the duplicate, after which the
\* duplicate is reached through the software TLS stream only; the locals are
\* dropped at the return, the later one first
FallbackLog(fail, read_failed) ==
    IF fail = "connect" THEN <<>>
    ELSE IF fail = "dup" THEN << <<"fb_stream", "open">>, <<"fb_stream", "close">> >>
    ELSE << <<"fb_stream", "open">>, <<"dup_fd", "open">> >>
           \o (IF fail = "nonblocking" THEN << <<"dup_fd", "set_nonblocking_err">> >>
               ELSE << <<"dup_fd", "set_nonblocking_ok">> >>
                      \o (IF fail \in {"server_name", "tls_new"} THEN <<>>
                          ELSE IF fail = "write"
                          THEN << <<"dup_fd", "tls_stream">>, <<"dup_fd", "write_err">> >>
                          ELSE << <<"dup_fd", "tls_stream">>, <<"dup_fd", "write_ok">>,
                                  <<"dup_fd", IF read_failed THEN "read_err"
                                              ELSE "read_ok">> >>))
           \o << <<"dup_fd", "close">>, <<"fb_stream", "close">> >>

\* fallback_new_connection: the connect completes; the descriptor is
\* duplicated and the request is exchanged over the software TLS stream
FallbackConnectDone ==
    /\ pc = "fb_connect"
    /\ \E fail \in {"connect", "dup", "nonblocking", "server_name", "tls_new", "write",
                    "none"} :
        LET res == IF fail = "connect" THEN Err(ConnectError)
                   ELSE IF fail = "dup" THEN Err(DupError)
                   ELSE IF fail = "nonblocking" THEN Err(NonblockError)
                   ELSE IF fail = "server_name" THEN Err(ServerNameError)
                   ELSE IF fail = "tls_new" THEN Err(TlsNewError)
                   ELSE IF fail = "write" THEN Err(WriteError)
                   ELSE fallback_read(srv_chunks, srv_end)
        IN  /\ Return(res)
            /\ fb_result' = res
            /\ exchanged' = (fail = "none")
            /\ delivered' = IF fail = "none" THEN Len(srv_chunks) ELSE delivered
            /\ io_log' = io_log \o FallbackLog(fail, read_to_string(srv_chunks, srv_end).err # NoErr)
    /\ UNCHANGED <<path, handshake, offload, fallback_calls, response, last_read,
                   srv_chunks, srv_end, req, results>>
    /\ UNCHANGED <<frameVars, hsVars, wssVars>>

\* the caller has the result and the client is ready for another request
\* to a server that behaves the same way
RequestFinished ==
    /\ pc = "done"
    /\ results' = IF exchanged
                  THEN results \cup {[path |-> path, outcome |-> Outcome(result)]}
                  ELSE results
    /\ pc' = "idle"
    /\ path' = "none"
    /\ handshake' = "none"
    /\ offload' = "none"
    /\ fallback_calls' = 0
    /\ fb_result' = NoResult
    /\ exchanged' = FALSE
    /\ response' = <<>>
    /\ last_read' = NoRead
    /\ result' = NoResult
    /\ delivered' = 0
    /\ io_log' = <<>>
    /\ UNCHANGED <<srv_chunks, srv_end, req>>
    /\ UNCHANGED <<frameVars, hsVars, wssVars>>

HttpsNext ==
    \/ HttpsRequest
    \/ ConnectDone
    \/ KtlsWriteDone
    \/ KtlsReadDone
    \/ FallbackConnectDone
    \/ RequestFinished

-----------------------------------------------------------------------------
(***************************************************************************)
(* main.rs: WssClient::connect.  As for the HTTPS request, each action     *)
(* runs the task from the completion of one awaited operation to the next  *)
(* await or to its return.                                                 *)
(***************************************************************************)
\* Ok(stream), the connected TcpStream handed to the caller
OkStream == [kind |-> "stream", body |-> <<>>, err |-> NoErr]

\* the Box<dyn Error> made from a message
MessageError(msg) == IoError(msg, 0)

ClosedDuringHandshake == MessageError("Connection closed during handshake")

\* connect going on when configure_ktls has failed (mutant)
ws_route_offload_unchecked(hs, off) == IF hs = "ok" THEN "ktls" ELSE "error"

\* the two `?` on perform_handshake and configure_ktls in connect
ws_route(hs, off) == IF hs = "ok" /\ off = "ok" THEN "ktls" ELSE "error"

\* response.windows(4).any(|w| w == b"\r\n\r\n")
HeadComplete(resp) == contains(resp, <<13, 10, 13, 10>>)

\* ---- the server ----
CRLF == <<13, 10>>

\* "HTTP/1.1 101 Switching Protocols", "HTTP/1.1 200 OK"
StatusLines == {<<72, 84, 84, 80, 47, 49, 46, 49, 32, 49, 48, 49, 32, 83, 119, 105, 116, 99, 104, 105, 110, 103, 32, 80, 114, 111, 116, 111, 99, 111, 108, 115>>,
                <<72, 84, 84, 80, 47, 49, 46, 49, 32, 50, 48, 48, 32, 79, 75>>}

\* the Upgrade header: "upgrade: WebSocket", or none
UpgradeLines == {<<<<117, 112, 103, 114, 97, 100, 101, 58, 32, 87, 101, 98, 83, 111, 99, 107, 101, 116>>>>, <<>>}

\* the Connection header: "Connection: Upgrade", "CONNECTION: upgrade",
\* "X-Connection: Upgrade" in its place, "Connection: keep-alive", or none
ConnectionLines == {<<<<67, 111, 110, 110, 101, 99, 116, 105, 111, 110, 58, 32, 85, 112, 103, 114, 97, 100, 101>>>>,
                    <<<<67, 79, 78, 78, 69, 67, 84, 73, 79, 78, 58, 32, 117, 112, 103, 114, 97, 100, 101>>>>,
                    <<<<88, 45, 67, 111, 110, 110, 101, 99, 116, 105, 111, 110, 58, 32, 85, 112, 103, 114, 97, 100, 101>>>>,
                    <<<<67, 111, 110, 110, 101, 99, 116, 105, 111, 110, 58, 32, 107, 101, 101, 112, 45, 97, 108, 105, 118, 101>>>>,
                    <<>>}

\* "Sec-WebSocket-Accept: ", "sec-websocket-ACCEPT:"
AcceptLabel == <<83, 101, 99, 45, 87, 101, 98, 83, 111, 99, 107, 101, 116, 45, 65, 99, 99, 101, 112, 116, 58, 32>>
AcceptLabelOdd == <<115, 101, 99, 45, 119, 101, 98, 115, 111, 99, 107, 101, 116, 45, 65, 67, 67, 69, 80, 84, 58>>

\* the clock readings generate_sec_key is tried with
Seeds == {4660, 8388607}

SecKeys == {generate_sec_key(seed) : seed \in Seeds}

\* the accept key a server derives from the key in the request
ServerAccept == [k \in SecKeys |-> compute_accept_key(k)]

\* the Sec-WebSocket-Accept header a server of the given kind sends
AcceptLines(kind, key) ==
    Eval(ServerAccept[key], LAMBDA accept :
        IF kind = "valid" THEN <<AcceptLabel \o accept>>
        ELSE IF kind = "valid-odd" THEN <<AcceptLabelOdd \o accept \o <<32, 9>> >>
        ELSE IF kind = "lowercased" THEN <<AcceptLabel \o to_lowercase(accept)>>
        ELSE <<>>)

\* the unmasked Text frame "hi" a server sends on its own as soon as it has
\* accepted the upgrade
Greeting == encode_frame(Text, <<104, 105>>, FALSE, <<>>)

\* what a server of the given kind sends after the empty line that ends the
\* header section
TrailingData(kind, key) ==
    IF kind = "frame" THEN Greeting
    ELSE IF kind = "accept" THEN AcceptLabel \o ServerAccept[key] \o CRLF
    ELSE IF kind = "connection" THEN <<255>> \o <<67, 79, 78, 78, 69, 67, 84, 73, 79, 78, 58, 32, 117, 112, 103, 114, 97, 100, 101>> \o CRLF
    ELSE <<>>

RECURSIVE JoinLines(_)
JoinLines(ls) == IF ls = <<>> THEN <<>> ELSE Head(ls) \o CRLF \o JoinLines(Tail(ls))

\* the header section with its empty line
HeadOf(srv, key) ==
    JoinLines(<<srv.status>> \o srv.upgrade \o srv.connection
                  \o AcceptLines(srv.accept, key)) \o CRLF

FirstPart == 20

\* the reads the server's bytes arrive in: all at once, in two parts, the
\* header section first, or only a first part before the stream ends
ServerChunks(srv, key) ==
    Eval(HeadOf(srv, key), LAMBDA head :
    Eval(head \o TrailingData(srv.trailing, key), LAMBDA all :
        LET cut == IF srv.delivery = "head-first" \/ Len(all) < FirstPart
                   THEN Len(head) ELSE FirstPart
        IN  IF srv.delivery = "whole" THEN <<all>>
            ELSE IF srv.delivery \in {"cut-eof", "cut-error"} THEN <<SubSeq(all, 1, cut)>>
            ELSE IF cut >= Len(all) THEN <<all>>
            ELSE <<SubSeq(all, 1, cut), SubSeq(all, cut + 1, Len(all))>>))

Servers ==
    [status : StatusLines, upgrade : UpgradeLines, connection : ConnectionLines,
     accept : {"valid", "valid-odd", "lowercased", "none"},
     trailing : {"none", "accept", "connection", "frame"},
     delivery : {"whole", "split", "head-first", "cut-eof", "cut-error"}]

\* a server that accepts the upgrade: "HTTP/1.1 101 Switching Protocols",
\* "upgrade: WebSocket", "Connection: Upgrade", the valid accept value
AcceptingServer ==
    [status |-> <<72, 84, 84, 80, 47, 49, 46, 49, 32, 49, 48, 49, 32, 83, 119, 105, 116, 99, 104, 105, 110, 103, 32, 80, 114, 111, 116, 111, 99, 111, 108, 115>>,
     upgrade |-> <<<<117, 112, 103, 114, 97, 100, 101, 58, 32, 87, 101, 98, 83, 111, 99, 107, 101, 116>>>>,
     connection |-> <<<<67, 111, 110, 110, 101, 99, 116, 105, 111, 110, 58, 32, 85, 112, 103, 114, 97, 100, 101>>>>,
     accept |-> "valid", trailing |-> "none", delivery |-> "whole"]

NoServer ==
    [status |-> <<>>, upgrade |-> <<>>, connection |-> <<>>, accept |-> "none",
     trailing |-> "none", delivery |-> "whole"]

\* ---- the peer, once the connection is upgraded ----
\* the text main sends: "Hello from ktls-uring-demo!"
Hello == <<72, 101, 108, 108, 111, 32, 102, 114, 111, 109, 32, 107, 116, 108, 115, 45, 117, 114, 105, 110, 103, 45, 100, 101, 109, 111, 33>>

\* the mask keys generate_mask_key returns for the frames main sends
SessionKeys == {<<18, 52, 86, 120>>, <<255, 0, 170, 85>>}

\* payloads of the frames the peer sends: "", "h", 1000, 1000 "bye", and 126
\* bytes (which need the 16-bit length field)
PeerPayloads ==
    {<<>>, <<104>>, <<3, 232>>, <<3, 232, 98, 121, 101>>, [i \in 1..126 |-> 97] \o <<>>}

\* the complete frames the peer sends, unmasked or masked
PeerFrames ==
    {encode_frame(op, bytes, FALSE, <<>>) : op \in Opcodes, bytes \in PeerPayloads}
        \cup {encode_frame(op, bytes, TRUE, <<18, 52, 86, 120>>) :
                 op \in Opcodes, bytes \in PeerPayloads}

\* where the frame's bytes can be cut: inside and after each part of the
\* header (first two bytes, extended length, mask key), and before the last
\* byte
CutOffsets == {1, 2, 3, 4, 6, 8}

\* a receive sees the frame in at most MaxReads reads
MaxReads == 3

CutPoints(f) == {k \in 1..(Len(f) - 1) : k \in CutOffsets \/ k = Len(f) - 1}

\* the reads that deliver f from byte a on, cut after the positions in cuts
RECURSIVE SplitAt(_, _, _)
SplitAt(f, a, cuts) ==
    IF cuts = {} THEN <<SubSeq(f, a, Len(f))>>
    ELSE LET k == CHOOSE x \in cuts : \A y \in cuts : x <= y
         IN  <<SubSeq(f, a, k)>> \o SplitAt(f, k + 1, cuts \ {k})

\* every non-empty read is at most the 4096 bytes of receive's read buffer
Splits(f) ==
    {SplitAt(f, 1, cuts) : cuts \in {c \in SUBSET CutPoints(f) : Cardinality(c) < MaxReads}}

\* what the peer does: a complete frame in one or several reads, or the
\* start of a frame and then the end of the stream (closed, or reset)
PeerReplies ==
    {[chunks |-> c, end |-> "eof"] : c \in UNION {Splits(f) : f \in PeerFrames}}
        \cup {[chunks |-> IF k = 0 THEN <<>> ELSE <<SubSeq(f, 1, k)>>, end |-> e] :
                 f \in PeerFrames, k \in 0..2, e \in {"eof", "error"}}

\* an echo server: the text comes back in one unmasked frame
EchoReply == [chunks |-> <<encode_frame(Text, Hello, FALSE, <<>>)>>, end |-> "eof"]

NoReply == [chunks |-> <<>>, end |-> "eof"]

\* main before it calls connect, facing a peer that will answer with reply
SessionStart(reply) ==
    /\ ws_log = <<>>
    /\ mpc = "connect"
    /\ ws_sent = <<>>
    /\ rx_peer = reply
    /\ rx_delivered = 0
    /\ rx_buffer = <<>>
    /\ rx_decodes = 0
    /\ send_result = NoResult
    /\ rx_result = NoResult
    /\ close_result = NoResult

WssIdle ==
    /\ SessionStart(NoReply)
    /\ wpc = "idle"
    /\ ws_handshake = "none"
    /\ ws_offload = "none"
    /\ ws_path = "none"
    /\ sec_key = <<>>
    /\ ws_server = NoServer
    /\ ws_chunks = <<>>
    /\ ws_delivered = 0
    /\ ws_response = <<>>
    /\ ws_validation = "none"
    /\ ws_result = NoResult

WssInit ==
    /\ SessionStart(EchoReply)
    /\ wpc = "idle"
    /\ ws_handshake = "none"
    /\ ws_offload = "none"
    /\ ws_path = "none"
    /\ sec_key = <<>>
    /\ ws_server \in Servers
    /\ ws_chunks = <<>>
    /\ ws_delivered = 0
    /\ ws_response = <<>>
    /\ ws_validation = "none"
    /\ ws_result = NoResult

\* what perform_handshake and configure_ktls did on the connection
WsSetupLog(hs, off) ==
    <<<<"handshake", IF hs = "ok" THEN "ok" ELSE "err">>>>
        \o (IF hs = "ok" THEN <<<<"offload", IF off = "ok" THEN "ok" ELSE "err">>>> ELSE <<>>)

\* connect returns res
WsReturn(res) ==
    /\ wpc' = "done"
    /\ ws_result' = res

\* connect is called: the address is resolved and the connect submitted
WssConnect ==
    /\ wpc = "idle"
    /\ \E dns_ok \in BOOLEAN :
        IF dns_ok
        THEN wpc' = "connect" /\ UNCHANGED ws_result
        ELSE WsReturn(Err(DnsError))
    /\ UNCHANGED <<ws_handshake, ws_offload, ws_path, sec_key, ws_server, ws_chunks,
                   ws_delivered, ws_response, ws_validation>>
    /\ UNCHANGED <<ws_log, sessionVars, frameVars, hsVars, httpsVars>>

\* the connect completes; the handshake and the offload installation run,
\* the key is generated and the write of the upgrade request is submitted
WssConnectDone ==
    /\ wpc = "connect"
    /\ \E connect_ok, name_ok \in BOOLEAN, hs, off \in {"ok", "failed"}, seed \in Seeds :
        IF ~connect_ok THEN
            WsReturn(Err(ConnectError))
            /\ ws_log' = Append(ws_log, <<"connect", "err">>)
            /\ UNCHANGED <<ws_handshake, ws_offload, ws_path, sec_key>>
        ELSE IF ~name_ok THEN
            WsReturn(Err(ServerNameError))
            /\ ws_log' = Append(ws_log, <<"connect", "ok">>)
            /\ UNCHANGED <<ws_handshake, ws_offload, ws_path, sec_key>>
        ELSE
            /\ ws_log' = ws_log \o <<<<"connect", "ok">>>> \o WsSetupLog(hs, off)
            /\ ws_handshake' = hs
            /\ ws_offload' = IF hs = "ok" THEN off ELSE "none"
            /\ IF ws_route(hs, IF hs = "ok" THEN off ELSE "none") = "ktls"
               THEN /\ ws_path' = "ktls"
                    /\ sec_key' = generate_sec_key(seed)
                    /\ wpc' = "write"
                    /\ UNCHANGED ws_result
               ELSE /\ WsReturn(Err(IF hs = "ok" THEN OffloadError ELSE HandshakeError))
                    /\ UNCHANGED <<ws_path, sec_key>>
    /\ UNCHANGED <<ws_server, ws_chunks, ws_delivered, ws_response, ws_validation>>
    /\ UNCHANGED <<sessionVars, frameVars, hsVars, httpsVars>>

\* the write of the upgrade request completes; the server answers the
\* request it received
WssWriteDone ==
    /\ wpc = "write"
    /\ \E write_ok \in BOOLEAN :
        IF write_ok
        THEN /\ wpc' = "read"
             /\ ws_chunks' = ServerChunks(ws_server, sec_key)
             /\ ws_log' = Append(ws_log, <<"write_request", "ok">>)
             /\ UNCHANGED ws_result
        ELSE /\ WsReturn(Err(WriteError))
             /\ ws_log' = Append(ws_log, <<"write_request", "err">>)
             /\ UNCHANGED ws_chunks
    /\ UNCHANGED <<ws_handshake, ws_offload, ws_path, sec_key, ws_server, ws_delivered,
                   ws_response, ws_validation>>
    /\ UNCHANGED <<sessionVars, frameVars, hsVars, httpsVars>>

\* a stream.read of the response loop completes; once the response holds
\* the empty line it is decoded and validated, and connect returns
WssReadDone ==
    /\ wpc = "read"
    /\ IF ws_delivered < Len(ws_chunks)
       THEN \E resp \in {ws_response \o ws_chunks[ws_delivered + 1]} :
                /\ ws_delivered' = ws_delivered + 1
                /\ ws_response' = resp
                /\ IF ~HeadComplete(resp)
                   THEN /\ ws_log' = Append(ws_log, <<"read_response", "ok">>)
                        /\ UNCHANGED <<wpc, ws_validation, ws_result>>
                   ELSE \E v \in {validate_handshake_response(from_utf8_lossy(resp),
                                                               sec_key)} :
                        /\ ws_validation' = v
                        /\ ws_log' = ws_log \o <<<<"read_response", "ok">>,
                                                  <<"validate", IF v = "ok" THEN "ok" ELSE "err">>>>
                        /\ WsReturn(IF v = "ok" THEN OkStream ELSE Err(MessageError(v)))
       ELSE /\ WsReturn(IF ws_server.delivery = "cut-error"
                        THEN Err(ConnReset) ELSE Err(ClosedDuringHandshake))
            /\ ws_log' = Append(ws_log, <<"read_response", "err">>)
            /\ UNCHANGED <<ws_delivered, ws_response, ws_validation>>
    /\ UNCHANGED <<ws_handshake, ws_offload, ws_path, sec_key, ws_server, ws_chunks>>
    /\ UNCHANGED <<sessionVars, frameVars, hsVars, httpsVars>>

\* ---- main: send_text, receive, close on the stream connect returned ----
\* receive keeping only the bytes of the latest read (mutant)
extend_from_slice_latest_only(buf, bytes) == bytes

\* buffer.extend_from_slice(&buf[..n])
extend_from_slice(buf, bytes) == buf \o bytes

ConnectionClosed == MessageError("Connection closed")

\* close is called: the Close frame (1000, normal closure) is encoded and its
\* write submitted
CallClose(key) ==
    /\ ws_sent' = Append(ws_sent, encode_close_frame(<<1000>>, key))
    /\ mpc' = "close"

\* connect has returned; on Ok(stream) main calls send_text, which encodes
\* the text frame and submits its write.  The response Vec of connect is
\* gone; what connect did not read of the server's bytes is still in the
\* socket, ahead of what the peer sends next.
MainConnected ==
    /\ mpc = "connect"
    /\ wpc = "done"
    /\ IF ws_result = OkStream
       THEN \E key \in SessionKeys :
                /\ ws_sent' = Append(ws_sent, encode_text_frame(Hello, key))
                /\ rx_peer' = [rx_peer EXCEPT !.chunks =
                                  SubSeq(ws_chunks, ws_delivered + 1, Len(ws_chunks)) \o @]
                /\ mpc' = "send"
       ELSE /\ mpc' = "done"
            /\ UNCHANGED <<ws_sent, rx_peer>>
    /\ UNCHANGED <<rx_delivered, rx_buffer, rx_decodes, send_result, rx_result,
                   close_result>>
    /\ UNCHANGED <<connVars, ws_log, frameVars, hsVars, httpsVars>>

\* the write of the text frame completes.  On success main calls receive:
\* the buffer is empty, decode_frame finds no frame in it and the first read
\* is submitted.  On failure main goes on to close.
SendTextDone ==
    /\ mpc = "send"
    /\ \E write_ok \in BOOLEAN, key \in SessionKeys :
        IF write_ok
        THEN /\ send_result' = Ok(<<>>)
             /\ ws_log' = Append(ws_log, <<"write_text_frame", "ok">>)
             /\ rx_buffer' = <<>>
             /\ rx_decodes' = rx_decodes + 1
             /\ mpc' = "receive"
             /\ UNCHANGED ws_sent
        ELSE /\ send_result' = Err(WriteError)
             /\ ws_log' = Append(ws_log, <<"write_text_frame", "err">>)
             /\ CallClose(key)
             /\ UNCHANGED <<rx_buffer, rx_decodes>>
    /\ UNCHANGED <<rx_peer, rx_delivered, rx_result, close_result>>
    /\ UNCHANGED <<connVars, frameVars, hsVars, httpsVars>>

\* a stream.read of receive completes: the bytes read join the buffer and
\* decode_frame runs on the whole buffer; a message ends receive, otherwise
\* the next read is submitted.  A read of 0 bytes or a failed read ends
\* receive with an error.  When receive has returned main calls close.
ReceiveReadDone ==
    /\ mpc = "receive"
    /\ \E key \in SessionKeys :
        IF rx_delivered < Len(rx_peer.chunks)
        THEN \E buf \in {extend_from_slice(rx_buffer, rx_peer.chunks[rx_delivered + 1])} :
             \E d \in decode_results(buf) :
                /\ rx_delivered' = rx_delivered + 1
                /\ rx_buffer' = buf
                /\ rx_decodes' = rx_decodes + 1
                /\ ws_log' = Append(ws_log, <<"read_frame", "ok">>)
                /\ IF d.kind = "Some"
                   THEN /\ rx_result' = Ok(d.msg)
                        /\ CallClose(key)
                   ELSE IF d.kind = "None"
                   THEN UNCHANGED <<rx_result, mpc, ws_sent>>
                   ELSE /\ mpc' = "panicked"
                        /\ UNCHANGED <<rx_result, ws_sent>>
        ELSE /\ rx_result' = Err(IF rx_peer.end = "eof" THEN ConnectionClosed ELSE ConnReset)
             /\ ws_log' = Append(ws_log, <<"read_frame", "err">>)
             /\ CallClose(key)
             /\ UNCHANGED <<rx_delivered, rx_buffer, rx_decodes>>
    /\ UNCHANGED <<rx_peer, send_result, close_result>>
    /\ UNCHANGED <<connVars, frameVars, hsVars, httpsVars>>

\* the write of the Close frame completes and close returns
CloseDone ==
    /\ mpc = "close"
    /\ \E write_ok \in BOOLEAN :
        /\ close_result' = IF write_ok THEN Ok(<<>>) ELSE Err(WriteError)
        /\ ws_log' = Append(ws_log, <<"write_close_frame", IF write_ok THEN "ok" ELSE "err">>)
    /\ mpc' = "done"
    /\ UNCHANGED <<ws_sent, rx_peer, rx_delivered, rx_buffer, rx_decodes, send_result,
                   rx_result>>
    /\ UNCHANGED <<connVars, frameVars, hsVars, httpsVars>>

WssNext ==
    \/ WssConnect
    \/ WssConnectDone
    \/ WssWriteDone
    \/ WssReadDone
    \/ MainConnected
    \/ SendTextDone
    \/ ReceiveReadDone
    \/ CloseDone

-----------------------------------------------------------------------------
(***************************************************************************)
(* Frame codec harness: a frame is encoded, a prefix of it (or all of it)  *)
(* reaches the receive buffer, and decode_frame is applied to the buffer.  *)
(* A second source of buffers is the start of a large frame sent by the    *)
(* peer, whose declared length needs the 64-bit length field.              *)
(***************************************************************************)

\* the payload lengths exercised (both sides of each length-encoding boundary)
PayloadLens == {0, 1, 125, 126, 1000, 65535, 65536}

\* payload contents: UTF-8 text with multi-byte scalars, and arbitrary bytes
Patterns == {"utf8", "bytes"}

PayloadOf(n, pat) ==
    [i \in 1..n |->
        IF pat = "utf8" THEN
            \* U+00E9 (C3 A9) repeated, after one ASCII byte when n is odd
            IF n % 2 = 1 /\ i = 1 THEN 97
            ELSE IF (i + n) % 2 = 1 THEN 195 ELSE 169
        ELSE (i * 37 + 200) % 256] \o <<>>

\* u16::to_be_bytes
U16ToBE(c) == <<(c % 65536) \div 256, c % 256>>

\* close status codes and reasons (as UTF-8): "", "bye", U+00E9 U+20AC, U+1F600
CloseCodes == {0, 1000, 1001, 4999, 65535}
Reasons == {<<>>, <<98, 121, 101>>, <<195, 169, 226, 130, 172>>, <<240, 159, 152, 128>>}

Payloads == {PayloadOf(n, pat) : n \in PayloadLens, pat \in Patterns}

MaskKeys == {<<0, 0, 0, 0>>, <<18, 52, 86, 120>>}
NoKey == <<>>

\* how many leading buffer lengths are tried one by one
MaxCut == 15

\* the buffer lengths tried for a frame f: every short prefix, the frame less
\* one byte, and the whole frame
Cuts(f) == {k \in 0..MaxCut : k <= Len(f)} \cup {Len(f) - 1, Len(f)}

\* declared lengths of large frames: 2^16, 2^32, 2^63 - 1
LargeLens == {<<0, 0, 1, 0>>, <<0, 1, 0, 0>>, <<32767, 65535, 65535, 65535>>}

\* how many payload bytes of a large frame may have arrived
MaxTail == 3

\* the first bytes of a frame of declared length len (RFC 6455, section 5.2)
LargeFrameStart(fin, op, m, key, len) ==
    <<fin * 128 + op, (IF m THEN 128 ELSE 0) + 127>> \o U64ToBE(len)
        \o (IF m THEN key ELSE <<>>) \o [i \in 1..MaxTail |-> (i * 85) % 256]

FrameInit ==
    /\ fpc = "idle"
    /\ opcode = NoOpcode
    /\ payload = <<>>
    /\ close_in = <<>>
    /\ f_masked = FALSE
    /\ mask_key = NoKey
    /\ frame = <<>>
    /\ frame_total = U64(0)
    /\ data = <<>>
    /\ decoded = DecodeNone

\* the value generate_mask_key() returns, when encode_frame calls it
KeysFor(m) == IF m THEN MaskKeys ELSE {NoKey}

\* a caller encodes a frame with encode_frame
Encode ==
    /\ fpc = "idle"
    /\ \E op \in Opcodes, bytes \in Payloads, m \in BOOLEAN :
        \E key \in KeysFor(m) :
            /\ opcode' = op
            /\ payload' = bytes
            /\ f_masked' = m
            /\ mask_key' = key
            /\ frame' = encode_frame(op, bytes, m, key)
            /\ frame_total' = U64(Len(encode_frame(op, bytes, m, key)))
    /\ fpc' = "encoded"
    /\ UNCHANGED <<close_in, data, decoded>>
    /\ UNCHANGED <<hsVars, httpsVars, wssVars>>

\* a Close frame carrying a status code and a reason is encoded
EncodeCloseReason ==
    /\ fpc = "idle"
    /\ \E code \in CloseCodes, reason \in Reasons, m \in BOOLEAN :
        \E key \in KeysFor(m) :
            /\ opcode' = Close
            /\ close_in' = <<code, reason>>
            /\ payload' = U16ToBE(code) \o reason
            /\ f_masked' = m
            /\ mask_key' = key
            /\ frame' = encode_frame(Close, U16ToBE(code) \o reason, m, key)
            /\ frame_total' = U64(Len(encode_frame(Close, U16ToBE(code) \o reason, m, key)))
    /\ fpc' = "encoded"
    /\ UNCHANGED <<data, decoded>>
    /\ UNCHANGED <<hsVars, httpsVars, wssVars>>

\* encode_close_frame(code), code being None or Some(c)
EncodeClose ==
    /\ fpc = "idle"
    /\ \E code \in {<<>>} \cup {<<c>> : c \in CloseCodes}, key \in MaskKeys :
        /\ opcode' = Close
        /\ close_in' = IF code = <<>> THEN <<>> ELSE <<code[1], <<>> >>
        /\ payload' = IF code = <<>> THEN <<>> ELSE U16ToBE(code[1])
        /\ f_masked' = TRUE
        /\ mask_key' = key
        /\ frame' = encode_close_frame(code, key)
        /\ frame_total' = U64(Len(encode_close_frame(code, key)))
    /\ fpc' = "encoded"
    /\ UNCHANGED <<data, decoded>>
    /\ UNCHANGED <<hsVars, httpsVars, wssVars>>

\* the first k bytes of the frame are in the buffer and decode_frame runs
Decode ==
    /\ fpc = "encoded"
    /\ \E k \in Cuts(frame) :
        /\ data' = SubSeq(frame, 1, k)
        /\ decoded' \in decode_results(SubSeq(frame, 1, k))
    /\ fpc' = "decoded"
    /\ UNCHANGED <<opcode, payload, close_in, f_masked, mask_key, frame, frame_total>>
    /\ UNCHANGED <<hsVars, httpsVars, wssVars>>

\* the first k bytes of a large frame are in the buffer and decode_frame runs
DecodeLarge ==
    /\ fpc = "idle"
    /\ \E fin \in {0, 1}, op \in Opcodes, m \in BOOLEAN, len \in LargeLens :
        \E key \in KeysFor(m) :
            LET start == LargeFrameStart(fin, op, m, key, len)
            IN  \E k \in 0..Len(start) :
                    /\ opcode' = op
                    /\ f_masked' = m
                    /\ mask_key' = key
                    /\ frame_total' = U64AddSmall(len, IF m THEN 14 ELSE 10).sum
                    /\ data' = SubSeq(start, 1, k)
                    /\ decoded' \in decode_results(SubSeq(start, 1, k))
    /\ fpc' = "decoded"
    /\ UNCHANGED <<payload, close_in, frame>>
    /\ UNCHANGED <<hsVars, httpsVars, wssVars>>

\* payloads of the frames a peer sends: "", "h", 1000, 1000 "bye", 1000
\* followed by a byte that is not UTF-8, and 126 bytes
RawPayloads ==
    {<<>>, <<104>>, <<3, 232>>, <<3, 232, 98, 121, 101>>, <<3, 232, 255>>,
     [i \in 1..126 |-> 97] \o <<>>}

\* bytes that follow a frame in the buffer: none, or the start of the next
RawTails == {<<>>, <<137>>, <<137, 0>>}

\* a complete frame as a peer lays it out (RFC 6455, section 5.2): any FIN
\* bit, any opcode nibble, any of RawPayloads
RawFrame(fin, nibble, m, key, bytes) ==
    <<fin * 128 + nibble>>
        \o (IF Len(bytes) < 126 THEN <<(IF m THEN 128 ELSE 0) + Len(bytes)>>
            ELSE <<(IF m THEN 128 ELSE 0) + 126, Len(bytes) \div 256, Len(bytes) % 256>>)
        \o (IF m THEN key ELSE <<>>)
        \o (IF m THEN [i \in 1..Len(bytes) |-> Xor8(bytes[i], key[((i - 1) % 4) + 1])] \o <<>>
            ELSE bytes)

\* a complete frame from a peer, followed by the bytes of a tail, is in the
\* buffer and decode_frame runs
DecodeRaw ==
    /\ fpc = "idle"
    /\ \E fin \in {0, 1}, nibble \in 0..15, m \in BOOLEAN, bytes \in RawPayloads,
          tail \in RawTails :
        \E key \in KeysFor(m) :
        \E f \in {RawFrame(fin, nibble, m, key, bytes)} :
            /\ opcode' = nibble
            /\ payload' = bytes
            /\ f_masked' = m
            /\ mask_key' = key
            /\ frame' = f
            /\ frame_total' = U64(Len(f))
            /\ data' = f \o tail
            /\ decoded' \in decode_results(f \o tail)
    /\ fpc' = "raw"
    /\ UNCHANGED close_in
    /\ UNCHANGED <<hsVars, httpsVars, wssVars>>

\* declared lengths a 64-bit length field can carry beyond what RFC 6455
\* allows (most significant bit set): 2^63, 2^64 - 14, 2^64 - 10, 2^64 - 1
OversizeLens ==
    {<<32768, 0, 0, 0>>, <<65535, 65535, 65535, 65522>>, <<65535, 65535, 65535, 65526>>,
     <<65535, 65535, 65535, 65535>>}

\* the first k bytes sent by a peer that declares such a length are in the
\* buffer and decode_frame runs
DecodeOversize ==
    /\ fpc = "idle"
    /\ \E fin \in {0, 1}, op \in Opcodes, m \in BOOLEAN, len \in OversizeLens :
        \E key \in KeysFor(m) :
        \E start \in {LargeFrameStart(fin, op, m, key, len)} :
        \E k \in 0..Len(start) :
            /\ opcode' = op
            /\ f_masked' = m
            /\ mask_key' = key
            /\ data' = SubSeq(start, 1, k)
            /\ decoded' \in decode_results(SubSeq(start, 1, k))
    /\ fpc' = "oversize"
    /\ UNCHANGED <<payload, close_in, frame, frame_total>>
    /\ UNCHANGED <<hsVars, httpsVars, wssVars>>

FrameNext ==
    \/ Encode
    \/ EncodeCloseReason
    \/ EncodeClose
    \/ Decode
    \/ DecodeLarge
    \/ DecodeRaw
    \/ DecodeOversize

-----------------------------------------------------------------------------
(***************************************************************************)
(* Handshake harness: compute_accept_key is applied to a client key, and   *)
(* validate_handshake_response to a response carrying an accept value.     *)
(***************************************************************************)
\* the key and the accept value of RFC 6455, section 1.3:
\* "dGhlIHNhbXBsZSBub25jZQ==" and "s3pPLMBiTxaQ9kYGzzhZRbK+xOo="
RfcKey == <<100, 71, 104, 108, 73, 72, 78, 104, 98, 88, 66, 115, 90, 83, 66, 117, 98, 50, 53, 106, 90, 81, 61, 61>>
RfcAccept == <<115, 51, 112, 80, 76, 77, 66, 105, 84, 120, 97, 81, 57, 107, 89, 71, 122, 122, 104, 90, 82, 98, 75, 43, 120, 79, 111, 61>>

\* client keys: the RFC's, the keys generate_sec_key returns, the empty key,
\* and keys of 19 and 20 bytes (with the GUID, 55 and 56 bytes: the longest
\* input SHA-1 pads into one block and the shortest it pads into two)
ClientKeys ==
    {RfcKey, <<>>, [i \in 1..19 |-> 64 + i] \o <<>>, [i \in 1..20 |-> 64 + i] \o <<>>}
        \cup SecKeys

\* the responses a server can answer with, given the accept value for the key
Responses(accept) ==
    {JoinLines(<<st>> \o up \o co \o <<AcceptLabel \o a>>) \o CRLF :
        st \in StatusLines, up \in UpgradeLines, co \in ConnectionLines,
        a \in {accept, RfcAccept}}

HandshakeIdle ==
    /\ hpc = "idle"
    /\ hs_key = <<>>
    /\ hs_accept = <<>>
    /\ hs_response = <<>>
    /\ hs_valid = "none"

HandshakeInit ==
    /\ hpc = "idle"
    /\ hs_key \in ClientKeys
    /\ hs_accept = <<>>
    /\ hs_response = <<>>
    /\ hs_valid = "none"

\* compute_accept_key(hs_key)
ComputeAccept ==
    /\ hpc = "idle"
    /\ hs_accept' = compute_accept_key(hs_key)
    /\ hpc' = "computed"
    /\ UNCHANGED <<hs_key, hs_response, hs_valid>>
    /\ UNCHANGED <<frameVars, httpsVars, wssVars>>

\* validate_handshake_response(response, hs_key)
Validate ==
    /\ hpc = "computed"
    /\ \E resp \in Responses(hs_accept) :
        /\ hs_response' = resp
        /\ hs_valid' = validate_handshake_response(resp, hs_key)
    /\ hpc' = "validated"
    /\ UNCHANGED <<hs_key, hs_accept>>
    /\ UNCHANGED <<frameVars, httpsVars, wssVars>>

HandshakeNext == ComputeAccept \/ Validate

\* the frame codec on its own
InitFrame == FrameInit /\ HandshakeIdle /\ HttpsIdle /\ WssIdle
SpecFrame == InitFrame /\ [][FrameNext]_vars

\* requests of the HTTPS client
InitHttps == HttpsInit /\ FrameInit /\ HandshakeIdle /\ WssIdle
SpecHttps == InitHttps /\ [][HttpsNext]_vars

\* the same requests when every submitted connect, write and read completes
\* (each .await resolves) and the blocking calls of the fallback return; the
\* server's data is finite and followed by a close or a failure.  Nothing
\* obliges the caller to make a request or to pick up its result.
SpecHttpsLive ==
    /\ InitHttps
    /\ [][HttpsNext]_vars
    /\ WF_vars(ConnectDone)
    /\ WF_vars(KtlsWriteDone)
    /\ WF_vars(KtlsReadDone)
    /\ WF_vars(FallbackConnectDone)

\* connects of the WebSocket client
InitWss == WssInit /\ FrameInit /\ HandshakeIdle /\ HttpsIdle
SpecWss == InitWss /\ [][WssNext]_vars

\* the WebSocket client against a server that accepts the upgrade and then
\* sends one frame, in every way PeerReplies lists
RecvInit ==
    /\ \E reply \in PeerReplies : SessionStart(reply)
    /\ wpc = "idle"
    /\ ws_handshake = "none"
    /\ ws_offload = "none"
    /\ ws_path = "none"
    /\ sec_key = <<>>
    /\ ws_server = AcceptingServer
    /\ ws_chunks = <<>>
    /\ ws_delivered = 0
    /\ ws_response = <<>>
    /\ ws_validation = "none"
    /\ ws_result = NoResult

InitRecv == RecvInit /\ FrameInit /\ HandshakeIdle /\ HttpsIdle

\* the handshake functions on their own
InitHandshake == HandshakeInit /\ FrameInit /\ HttpsIdle /\ WssIdle
SpecHandshake == InitHandshake /\ [][HandshakeNext]_vars
SpecRecv == InitRecv /\ [][WssNext]_vars

\* main: the HTTPS requests one after the other, each result unwrapped, and
\* then the WebSocket demo, against a server that accepts the upgrade or
\* answers "HTTP/1.1 200 OK"
MainInit ==
    /\ SessionStart(EchoReply)
    /\ wpc = "idle"
    /\ ws_handshake = "none"
    /\ ws_offload = "none"
    /\ ws_path = "none"
    /\ sec_key = <<>>
    /\ ws_server \in {srv \in Servers :
                         /\ srv.upgrade = AcceptingServer.upgrade
                         /\ srv.connection = AcceptingServer.connection
                         /\ srv.accept = "valid"
                         /\ srv.trailing = "none"
                         /\ srv.delivery \in {"whole", "split"}}
    /\ ws_chunks = <<>>
    /\ ws_delivered = 0
    /\ ws_response = <<>>
    /\ ws_validation = "none"
    /\ ws_result = NoResult

\* the last request has returned and its result was unwrapped
RequestsDone == pc = "idle" /\ req = MaxRequests

\* a step of main: a step of the request in progress; the return of a
\* request to main, which goes on only if unwrap() finds an Ok; a step of
\* the WebSocket demo once the last request has returned
MainNext ==
    \/ HttpsRequest
    \/ ConnectDone
    \/ KtlsWriteDone
    \/ KtlsReadDone
    \/ FallbackConnectDone
    \/ (result.kind = "ok" /\ RequestFinished)
    \/ (RequestsDone /\ WssConnect)
    \/ (RequestsDone /\ WssConnectDone)
    \/ (RequestsDone /\ WssWriteDone)
    \/ (RequestsDone /\ WssReadDone)
    \/ (RequestsDone /\ MainConnected)
    \/ (RequestsDone /\ SendTextDone)
    \/ (RequestsDone /\ ReceiveReadDone)
    \/ (RequestsDone /\ CloseDone)

InitMain == HttpsInit /\ FrameInit /\ HandshakeIdle /\ MainInit
SpecMain == InitMain /\ [][MainNext]_vars

-----------------------------------------------------------------------------
(***************************************************************************)
(* Properties of the frame codec.                                          *)
(***************************************************************************)

\* the opcode a message variant stands for
MsgOpcode(msg) ==
    IF msg.variant = "Text" THEN Text
    ELSE IF msg.variant = "Binary" THEN Binary
    ELSE IF msg.variant = "Close" THEN Close
    ELSE IF msg.variant = "Ping" THEN Ping
    ELSE IF msg.variant = "Pong" THEN Pong
    ELSE NoOpcode

\* the payload bytes a message carries
MsgPayload(msg) ==
    IF msg.variant = "Close"
    THEN IF msg.some THEN U16ToBE(msg.code) \o msg.body ELSE <<>>
    ELSE msg.body

\* decode_frame was applied to the whole of a masked frame from encode_frame
WholeMasked == fpc = "decoded" /\ frame # <<>> /\ f_masked /\ data = frame

\* the message carries the opcode and the payload that were encoded
RoundTrips ==
    /\ decoded.kind = "Some"
    /\ MsgOpcode(decoded.msg) = opcode
    /\ MsgPayload(decoded.msg) = payload

\* C3 as stated: for every opcode, every listed payload length and every mask
\* key, decoding a masked encoded frame returns a message with the original
\* opcode and exactly the original payload, consuming the frame's length.
C3_RoundTripEveryOpcode ==
    WholeMasked => RoundTrips /\ decoded.consumed = Len(frame)

\* the payloads decode_frame hands back unchanged for the opcode
Preserved(op, bytes) ==
    \/ op \in {Binary, Ping, Pong}
    \/ op = Text /\ IsValidUtf8(bytes)
    \/ op = Close /\ Len(bytes) = 0
    \/ op = Close /\ Len(bytes) >= 2 /\ IsValidUtf8(SubSeq(bytes, 3, Len(bytes)))

\* C3 amended: decoding a masked encoded frame always returns a message and
\* consumes exactly the frame's length; the message carries the original
\* opcode and payload for Binary, Ping and Pong, for Text when the payload
\* is valid UTF-8, and for Close when the payload is empty or is two bytes
\* of code followed by valid UTF-8; a Continuation frame comes back as a
\* Binary message with the original payload.
C3_RoundTrip ==
    WholeMasked =>
        /\ decoded.kind = "Some"
        /\ decoded.consumed = Len(frame)
        /\ Preserved(opcode, payload) => RoundTrips
        /\ opcode = Continuation => decoded.msg = MsgBinary(payload)

\* a Text frame of 1000 valid UTF-8 bytes was encoded masked and decoded
C3_Witness ==
    /\ WholeMasked
    /\ opcode = Text
    /\ Len(payload) = 1000
    /\ mask_key # <<0, 0, 0, 0>>
    /\ decoded.msg = MsgText(payload)

\* the buffer is a strict prefix of the frame it is taken from
StrictPrefix == LenLess(Len(data), frame_total)

\* C4: on a strict prefix of a well-formed frame decode_frame returns the
\* incomplete signal (None): no message, no error, nothing consumed.
C4_PrefixIncomplete ==
    (fpc = "decoded" /\ StrictPrefix) => decoded = DecodeNone

\* the buffer ends inside the mask key of a frame with a 64-bit length
C4_Witness ==
    /\ fpc = "decoded"
    /\ StrictPrefix
    /\ f_masked
    /\ Len(data) = 12
    /\ And8(data[2], 127) = 127
    /\ decoded = DecodeNone

\* C10: a Close frame encoded with a status code and a UTF-8 reason decodes
\* to Close(Some((code, reason))).
C10_CloseRoundTrip ==
    (fpc = "decoded" /\ data = frame /\ close_in # <<>>) =>
        /\ decoded.kind = "Some"
        /\ decoded.msg = MsgClose(close_in[1], close_in[2])

\* code 1000 with reason "bye" came back as Close(Some((1000, "bye")))
C10_Witness ==
    /\ fpc = "decoded"
    /\ data = frame
    /\ close_in = <<1000, <<98, 121, 101>> >>
    /\ decoded.msg = MsgClose(1000, <<98, 121, 101>>)

\* encode_frame has just returned a masked frame
EncodedMasked == fpc = "encoded" /\ f_masked

\* the length of the frame header before the mask key, for a payload length
LenFieldSize(n) == IF n < 126 THEN 2 ELSE IF n < 65536 THEN 4 ELSE 10

\* the frame's bytes from..to read as a big-endian number
RECURSIVE BEValue(_, _, _)
BEValue(f, from, to) ==
    IF to < from THEN 0 ELSE BEValue(f, from, to - 1) * 256 + f[to]

\* C11: a masked frame from encode_frame starts with 0x80 | opcode, has the
\* mask bit set, carries the payload length as the 7-bit value below 126, as
\* marker 126 and 16 bits big-endian below 65536, as marker 127 and 64 bits
\* big-endian otherwise, then the 4-byte key and the payload with byte i
\* XORed with key[i mod 4]; its length is (2, 4 or 10) + 4 + payload length.
C11_FrameLayout ==
    EncodedMasked =>
        LET n == Len(payload)
            h == LenFieldSize(n)
        IN  /\ Len(frame) = h + 4 + n
            /\ frame[1] = 128 + opcode
            /\ frame[2] \div 128 = 1
            /\ IF n < 126 THEN frame[2] % 128 = n
               ELSE IF n < 65536
               THEN frame[2] % 128 = 126 /\ BEValue(frame, 3, 4) = n
               ELSE /\ frame[2] % 128 = 127
                    /\ BEValue(frame, 3, 6) = 0
                    /\ BEValue(frame, 7, 10) = n
            /\ SubSeq(frame, h + 1, h + 4) = mask_key
            /\ \A i \in 0..(n - 1) :
                  frame[h + 5 + i] = Xor8(payload[i + 1], mask_key[(i % 4) + 1])

\* a Ping of 126 bytes was encoded with a non-zero key
C11_Witness ==
    /\ EncodedMasked
    /\ opcode = Ping
    /\ Len(payload) = 126
    /\ mask_key # <<0, 0, 0, 0>>
    /\ Len(frame) = 134

\* decode_frame was applied to a buffer that holds a complete frame from a
\* peer (possibly followed by more bytes)
RawComplete == fpc = "raw" /\ ~LenLess(Len(data), frame_total)

\* C16: decode_frame returns the incomplete signal (None) only when the
\* buffer does not hold the whole frame: on a buffer with at least header
\* length plus declared payload length bytes, whatever the opcode nibble, it
\* does not return None.
C16_NoneOnlyIncomplete == RawComplete => decoded # DecodeNone

\* the message the stated mapping assigns to an opcode and a payload
MappedMessage(op, bytes) ==
    CASE op = Text -> MsgText(from_utf8_lossy(bytes))
      [] op = Binary -> MsgBinary(bytes)
      [] op = Ping -> MsgPing(bytes)
      [] op = Pong -> MsgPong(bytes)
      [] op = Continuation -> MsgBinary(bytes)
      [] op = Close /\ Len(bytes) >= 2 ->
            MsgClose(BEValue(bytes, 1, 2), from_utf8_lossy(SubSeq(bytes, 3, Len(bytes))))
      [] op = Close /\ Len(bytes) < 2 -> MsgCloseNone

\* C17: for every complete frame with one of the six opcodes, masked or not,
\* with the FIN bit set or clear, decode_frame returns Text for Text, Binary
\* for Binary, Ping for Ping, Pong for Pong, Binary for Continuation, Close
\* with the big-endian code of the first two bytes and the rest as (lossy
\* UTF-8) reason for a Close payload of at least 2 bytes, and Close(None)
\* for a Close payload of 0 or 1 bytes; it consumes the frame's length.
C17_OpcodeMapping ==
    /\ (RawComplete /\ opcode \in Opcodes) =>
          /\ decoded.kind = "Some"
          /\ decoded.msg = MappedMessage(opcode, payload)
          /\ decoded.consumed = Len(frame)
    /\ (fpc = "decoded" /\ data = frame /\ frame # <<>>) =>
          /\ decoded.kind = "Some"
          /\ decoded.msg = MappedMessage(opcode, payload)

\* an unmasked Continuation frame with FIN clear came back as Binary
C17_Witness ==
    /\ RawComplete
    /\ opcode = Continuation
    /\ data[1] < 128
    /\ payload = <<3, 232, 255>>
    /\ decoded.msg = MsgBinary(payload)

\* decode_frame has run on the buffer
Decoded == fpc \in {"decoded", "raw", "oversize"}

\* C20: decode_frame is total and bounds-safe on every buffer, frames that
\* declare a 64-bit length up to 2^64 - 1 included: it never panics (no
\* overflow of header_len + payload_len, no slice index outside the buffer),
\* and when it returns a message the consumed count is header_len +
\* payload_len and at most the buffer length.
C20_DecodeTotal ==
    Decoded =>
        /\ decoded.kind # "Panic"
        /\ decoded.kind = "Some" =>
              /\ decoded.consumed <= Len(data)
              /\ decoded.consumed = parse_frame_header(data).header_len
                                      + U64ToNat(parse_frame_header(data).payload_len)

-----------------------------------------------------------------------------
(***************************************************************************)
(* Properties of the HTTPS request paths.                                  *)
(***************************************************************************)

\* C1: when perform_handshake or configure_ktls fails, the request calls
\* fallback_new_connection exactly once and returns exactly what the
\* fallback returned; the handshake or offload error is never the result.
C1_FallbackOnce ==
    /\ fallback_calls <= 1
    /\ (handshake = "failed" \/ offload = "failed") =>
        /\ fallback_calls = 1
        /\ path = "fallback"
        /\ pc \in {"fb_connect", "done"}
        /\ pc = "done" =>
            /\ result = fb_result
            /\ result.kind # "none"
            /\ result.err \notin {HandshakeError, OffloadError}

\* the offload installation failed after a good handshake and the fallback
\* produced the response
C1_Witness ==
    /\ pc = "done"
    /\ handshake = "ok"
    /\ offload = "failed"
    /\ fallback_calls = 1
    /\ result.kind = "ok"
    /\ result.body # <<>>

\* the bytes the reads have delivered so far, in arrival order
Arrived == Flatten(SubSeq(srv_chunks, 1, delivered))

\* ktls_request returned after a read failed with the abrupt-close condition
AfterAbruptRead ==
    /\ pc = "done"
    /\ path = "ktls"
    /\ last_read.kind = "err"
    /\ last_read.err \in AbruptErrors

\* C5 as stated: after an abrupt-close read error the accumulated response is
\* returned as success when at least one byte was accumulated, and the error
\* is returned when none was.
C5_AbruptCloseAsStated ==
    AfterAbruptRead =>
        IF Arrived # <<>> THEN result = Ok(Arrived) ELSE result = Err(last_read.err)

\* C5 amended: after an abrupt-close read error with at least one byte
\* accumulated the loop ends and the accumulated bytes are returned as
\* success when they are valid UTF-8 (the UTF-8 conversion error otherwise);
\* with no byte accumulated the read error is returned.
C5_AbruptClose ==
    AfterAbruptRead =>
        /\ response = Arrived
        /\ IF Arrived = <<>> THEN result = Err(last_read.err)
           ELSE IF IsValidUtf8(Arrived) THEN result = Ok(Arrived)
           ELSE result = Err(FromUtf8Error)

\* EIO after two chunks of data ended the request with the response
C5_Witness ==
    /\ AfterAbruptRead
    /\ last_read.err = EIO
    /\ delivered = 2
    /\ result = Ok(Arrived)

\* ktls_request returned after a zero-length read that followed data
AfterZeroRead ==
    /\ pc = "done"
    /\ path = "ktls"
    /\ last_read = ReadOk(<<>>)
    /\ delivered >= 1

\* C6 as stated: one or more non-empty reads followed by a zero-length read
\* make the request return success with the concatenation of the chunks.
C6_ZeroReadAsStated == AfterZeroRead => result = Ok(Arrived)

\* C6 amended: one or more non-empty reads followed by a zero-length read
\* end the loop with the concatenation of the chunks in arrival order; the
\* request returns it as success when it is valid UTF-8 and the UTF-8
\* conversion error otherwise.
C6_ZeroRead ==
    AfterZeroRead =>
        /\ delivered = Len(srv_chunks)
        /\ response = Arrived
        /\ IF IsValidUtf8(Arrived) THEN result = Ok(Arrived)
           ELSE result = Err(FromUtf8Error)

\* two chunks, each half of one UTF-8 scalar, were returned as one string
C6_Witness ==
    /\ AfterZeroRead
    /\ srv_chunks = << <<195>>, <<169>> >>
    /\ result = Ok(<<195, 169>>)

\* C7: for the same server behaviour the kernel-offload path and the
\* fallback path return the same response string, or an error in both.
C7_SameOutcome ==
    \A a, b \in results :
        (a.path = "ktls" /\ b.path = "fallback") => a.outcome = b.outcome

\* both paths served a response that ended in an abrupt close after data
C7_Witness ==
    /\ srv_end = "abrupt"
    /\ \E a, b \in results :
        /\ a.path = "ktls"
        /\ b.path = "fallback"
        /\ a.outcome[1] = "ok"
        /\ a.outcome[2] # <<>>
        /\ b.outcome = a.outcome

\* how many times the operations ops were performed on handle h
Count(h, ops) ==
    Cardinality({i \in 1..Len(io_log) : io_log[i][1] = h /\ io_log[i][2] \in ops})

Handles == {"stream", "fb_stream", "dup_fd"}

\* C12: configure_ktls is attempted at most once per socket and exactly once
\* per successful handshake, whose secrets it consumes; after a failed
\* installation the socket is closed with no further operation on it, and
\* whatever follows happens on a newly opened connection.
C12_OffloadOnce ==
    /\ \A h \in Handles : Count(h, {"offload_ok", "offload_err"}) <= 1
    /\ \A h \in Handles :
          Count(h, {"offload_ok", "offload_err"}) = Count(h, {"handshake_ok"})
    /\ \A i \in 1..Len(io_log) :
          io_log[i][2] = "offload_err" =>
              /\ i < Len(io_log)
              /\ io_log[i + 1] = <<io_log[i][1], "close">>
              /\ \A j \in (i + 2)..Len(io_log) : io_log[j][1] # io_log[i][1]
              /\ i + 2 <= Len(io_log) => io_log[i + 2] = <<"fb_stream", "open">>

\* the installation failed, the socket was closed and the response was read
\* over a new connection
C12_Witness ==
    /\ pc = "done"
    /\ offload = "failed"
    /\ result.kind = "ok"
    /\ SubSeq(io_log, 3, 5) = << <<"stream", "offload_err">>, <<"stream", "close">>,
                                 <<"fb_stream", "open">> >>
    /\ Count("dup_fd", {"read_ok"}) = 1

\* the request's write failed on the kernel-offload transport
KtlsWriteFailed == path = "ktls" /\ Count("stream", {"write_err"}) > 0

\* a read failed on the kernel-offload transport outside the implicit-EOF
\* pattern (EIO or UnexpectedEof after at least one byte)
KtlsReadFailed ==
    /\ path = "ktls"
    /\ last_read.kind = "err"
    /\ ~(last_read.err \in AbruptErrors /\ Arrived # <<>>)

\* C13: on the kernel-offload transport a failed write, or a failed read
\* that is not the implicit-EOF pattern, ends the request with that error;
\* no fallback connection is opened and nothing more is read or written on
\* the connection.
C13_KtlsErrorTerminal ==
    (KtlsWriteFailed \/ KtlsReadFailed) =>
        /\ pc = "done"
        /\ result = Err(IF KtlsWriteFailed THEN WriteError ELSE last_read.err)
        /\ fallback_calls = 0
        /\ \A i \in 1..Len(io_log) : io_log[i][1] = "stream"
        /\ io_log[Len(io_log)] = <<"stream", "close">>
        /\ io_log[Len(io_log) - 1][2] \in {"write_err", "read_err"}
        /\ Count("stream", {"write_err", "read_err"}) = 1

\* a connection reset after one chunk of data ended the request with the
\* reset error
C13_Witness ==
    /\ KtlsReadFailed
    /\ last_read.err = ConnReset
    /\ delivered = 1
    /\ result = Err(ConnReset)

\* the positions of the log where handle h was used for one of ops
Uses(h, ops) == {i \in 1..Len(io_log) : io_log[i][1] = h /\ io_log[i][2] \in ops}

ReadsWrites == {"write_ok", "write_err", "read_ok", "read_err"}

\* fallback_new_connection has returned
FallbackReturned == pc = "done" /\ fb_result # NoResult

\* C18: in fallback_new_connection the duplicate is made of the descriptor
\* of the connection just opened; the original handle is used for nothing
\* but to open and close the connection; every read and write of the
\* fallback goes through the duplicate, between its creation and its close;
\* and when the function has returned, by whichever path, every descriptor
\* it opened has been closed, once, after the last operation on it.
C18_DupOwnership ==
    /\ \A i \in 1..Len(io_log) :
          /\ io_log[i][1] = "fb_stream" => io_log[i][2] \in {"open", "close"}
          /\ io_log[i] = <<"dup_fd", "open">> =>
                i > 1 /\ io_log[i - 1] = <<"fb_stream", "open">>
          /\ (io_log[i][1] = "dup_fd" /\ io_log[i][2] # "open") =>
                /\ Uses("dup_fd", {"open"}) # {}
                /\ \A j \in Uses("dup_fd", {"close"}) : j >= i
          /\ (io_log[i][2] \in ReadsWrites /\ Uses("fb_stream", {"open"}) # {}) =>
                io_log[i][1] = "dup_fd"
    /\ FallbackReturned =>
          /\ \A h \in {"fb_stream", "dup_fd"} :
                /\ Cardinality(Uses(h, {"open"})) <= 1
                /\ Cardinality(Uses(h, {"close"})) = Cardinality(Uses(h, {"open"}))
                /\ \A i \in Uses(h, {"close"}) :
                      \A j \in 1..Len(io_log) : io_log[j][1] = h => j <= i
          /\ fb_result \notin {Err(DnsError), Err(ConnectError)} =>
                Cardinality(Uses("fb_stream", {"open"})) = 1
          /\ fb_result \notin {Err(DnsError), Err(ConnectError), Err(DupError)} =>
                Cardinality(Uses("dup_fd", {"open"})) = 1
          /\ fb_result.kind = "ok" =>
                /\ Cardinality(Uses("dup_fd", {"write_ok"})) = 1
                /\ Cardinality(Uses("dup_fd", {"read_ok", "read_err"})) = 1

\* the write on the software TLS stream failed, and both descriptors were
\* closed, the duplicate first
C18_Witness ==
    /\ FallbackReturned
    /\ fb_result = Err(WriteError)
    /\ Len(io_log) >= 5
    /\ SubSeq(io_log, Len(io_log) - 2, Len(io_log))
          = << <<"dup_fd", "write_err">>, <<"dup_fd", "close">>, <<"fb_stream", "close">> >>

-----------------------------------------------------------------------------
(***************************************************************************)
(* Properties of WssClient::connect and of the handshake validation.       *)
(***************************************************************************)
\* C2: when the TLS handshake or the offload installation fails in
\* WssClient::connect, the connection goes on over the fallback transport
\* and connect does not return the handshake or offload error.
C2_FallbackRouting ==
    (ws_handshake = "failed" \/ ws_offload = "failed") =>
        /\ ws_path = "fallback"
        /\ ws_result \notin {Err(HandshakeError), Err(OffloadError)}

\* the header lines of a response: the lines after the status line, up to
\* the first empty line
HeaderLines(text) ==
    Eval(lines(text), LAMBDA ls :
        LET blank == {i \in 1..Len(ls) : ls[i] = <<>>}
            last == IF blank = {} THEN Len(ls)
                    ELSE (CHOOSE i \in blank : \A j \in blank : i <= j) - 1
        IN  {ls[i] : i \in 2..last})

\* line is a header with the given name, in any case
Named(line, name) ==
    split_once(line) # <<>> /\ to_lowercase(split_once(line)[1]) = name

\* the value of a header line
ValueOf(line) == trim(split_once(line)[2])

\* the response connect validated, as text
ValidatedText == from_utf8_lossy(ws_response)

\* C8: a response is accepted only if its status line is 101 and its header
\* lines include an Upgrade header with value websocket and a Connection
\* header with value Upgrade, names and values in any case.
C8_ConnectionHeaderRequired ==
    ws_validation = "ok" =>
        \A hs \in {HeaderLines(ValidatedText)} :
            /\ starts_with(ValidatedText, Status101)
            /\ \E h \in hs : /\ Named(h, <<117, 112, 103, 114, 97, 100, 101>>)
                             /\ to_lowercase(ValueOf(h)) = <<119, 101, 98, 115, 111, 99, 107, 101, 116>>
            /\ \E h \in hs : /\ Named(h, <<99, 111, 110, 110, 101, 99, 116, 105, 111, 110>>)
                             /\ to_lowercase(ValueOf(h)) = <<117, 112, 103, 114, 97, 100, 101>>

\* C9: a response is accepted only if one of its header lines is a
\* Sec-WebSocket-Accept header whose value is compute_accept_key(sec_key);
\* after any validation error connect has returned that error and no stream.
C9_AcceptHeaderRequired ==
    /\ ws_validation = "ok" =>
          \E h \in HeaderLines(ValidatedText) :
              /\ Named(h, <<115, 101, 99, 45, 119, 101, 98, 115, 111, 99, 107, 101, 116, 45, 97, 99, 99, 101, 112, 116>>)
              /\ ValueOf(h) = compute_accept_key(sec_key)
    /\ ws_validation \notin {"none", "ok"} =>
          /\ wpc = "done"
          /\ ws_result = Err(MessageError(ws_validation))


\* C15: compute_accept_key returns base64(SHA-1(client key ++ GUID)), 28
\* characters; for the RFC 6455 key it returns s3pPLMBiTxaQ9kYGzzhZRbK+xOo=.
C15_AcceptKey ==
    hpc # "idle" =>
        /\ hs_accept = Base64Encode(Sha1(hs_key \o WS_GUID))
        /\ Len(hs_accept) = 28
        /\ hs_key = RfcKey => hs_accept = RfcAccept

\* the accept value of the RFC's key has been computed
C15_Witness == hpc = "computed" /\ hs_key = RfcKey /\ hs_accept = RfcAccept

-----------------------------------------------------------------------------
(***************************************************************************)
(* Properties of main's WebSocket session.                                 *)
(***************************************************************************)
\* the peer's reads add up to one complete frame
PeerFrameComplete == Flatten(rx_peer.chunks) \in PeerFrames

\* receive was called and has returned
ReceiveReturned == send_result = Ok(<<>>) /\ mpc \in {"close", "done"}

\* what receive returns when the frame f arrives in one read
OneRead(f) == Ok(decode_frame(f, TRUE).msg)

\* C14: for every complete frame and every way of splitting it across
\* non-empty reads, receive calls decode_frame again after each read (one
\* call on the empty buffer, then one per read), does not panic, and returns
\* the message it returns when the frame arrives in one read; an error is
\* returned only when a read reported the end of the stream or failed.
C14_SplitReceive ==
    /\ mpc = "receive" => rx_decodes = rx_delivered + 1
    /\ PeerFrameComplete => mpc # "panicked"
    /\ (PeerFrameComplete /\ ReceiveReturned) =>
          /\ rx_result = OneRead(Flatten(rx_peer.chunks))
          /\ rx_delivered = Len(rx_peer.chunks)
          /\ rx_decodes = rx_delivered + 1
    /\ (ReceiveReturned /\ rx_result.kind = "err") =>
          /\ rx_delivered = Len(rx_peer.chunks)
          /\ \E i \in 1..Len(ws_log) : ws_log[i] = <<"read_frame", "err">>

\* a Close frame with code 1000 and reason "bye" arrived in three reads
C14_Witness ==
    /\ ReceiveReturned
    /\ PeerFrameComplete
    /\ Len(rx_peer.chunks) = 3
    /\ rx_result = Ok(MsgClose(1000, <<98, 121, 101>>))

\* the place of each step in the stated order
StepRank(step) ==
    CASE step = "connect" -> 1
      [] step = "handshake" -> 2
      [] step = "offload" -> 3
      [] step = "write_request" -> 4
      [] step = "read_response" -> 5
      [] step = "validate" -> 6
      [] step \in {"write_text_frame", "read_frame", "write_close_frame"} -> 7

ConnectSteps ==
    {"connect", "handshake", "offload", "write_request", "read_response", "validate"}

\* the log positions of a step
StepAt(step) == {i \in 1..Len(ws_log) : ws_log[i][1] = step}

\* C19: what is done on the connection follows the order TCP connect, TLS
\* handshake, offload installation, upgrade request written, upgrade
\* response read, response validated; each step starts only after the one
\* before it succeeded, and a failed step is the last; connect returns the
\* stream only when all six succeeded; and a WebSocket frame (send_text,
\* close) is written, or handed to write_all, only after the validation
\* succeeded.
C19_StepOrder ==
    /\ \A i \in 1..Len(ws_log) : \A j \in (i + 1)..Len(ws_log) :
          /\ StepRank(ws_log[i][1]) <= StepRank(ws_log[j][1])
          /\ ws_log[i][1] \in ConnectSteps => ws_log[i][2] = "ok"
          /\ ws_log[i][1] \in ConnectSteps \ {"read_response"} =>
                ws_log[i][1] # ws_log[j][1]
    /\ \A i \in 2..Len(ws_log) :
          StepRank(ws_log[i][1]) <= StepRank(ws_log[i - 1][1]) + 1
    /\ ws_log # <<>> => ws_log[1][1] = "connect"
    /\ ws_result = OkStream =>
          /\ \A step \in ConnectSteps :
                StepAt(step) # {} /\ \A i \in StepAt(step) : ws_log[i][2] = "ok"
          /\ ws_handshake = "ok" /\ ws_offload = "ok" /\ ws_validation = "ok"
    /\ (ws_sent # <<>> \/ StepAt("write_text_frame") # {} \/ StepAt("write_close_frame") # {}
          \/ StepAt("read_frame") # {}) =>
          /\ ws_result = OkStream
          /\ ws_validation = "ok"
          /\ \E v \in StepAt("validate") :
                /\ ws_log[v] = <<"validate", "ok">>
                /\ \A i \in 1..Len(ws_log) : StepRank(ws_log[i][1]) = 7 => v < i
    /\ ws_result.kind = "err" => mpc \in {"connect", "done"} /\ ws_sent = <<>>

\* the response came in two reads, the text was sent, the echo received and
\* the Close frame written
C19_Witness ==
    /\ mpc = "done"
    /\ close_result = Ok(<<>>)
    /\ rx_result = Ok(MsgText(Hello))
    /\ Len(ws_sent) = 2
    /\ ws_log = << <<"connect", "ok">>, <<"handshake", "ok">>, <<"offload", "ok">>,
                   <<"write_request", "ok">>, <<"read_response", "ok">>,
                   <<"read_response", "ok">>, <<"validate", "ok">>,
                   <<"write_text_frame", "ok">>, <<"read_frame", "ok">>,
                   <<"write_close_frame", "ok">> >>

(***************************************************************************)
(* The bytes that follow the upgrade response                              *)
(***************************************************************************)
\* the bytes of resp after its first "\r\n\r\n"
AfterHead(resp) ==
    IF ~HeadComplete(resp) THEN <<>>
    ELSE Eval(CHOOSE i \in 1..(Len(resp) - 3) :
                  /\ SubSeq(resp, i, i + 3) = <<13, 10, 13, 10>>
                  /\ \A j \in 1..(i - 1) : SubSeq(resp, j, j + 3) # <<13, 10, 13, 10>>,
              LAMBDA at : SubSeq(resp, at + 4, Len(resp)))

\* what the client has read from the socket after the header terminator: in
\* connect's read loop and in receive
ReadPastHead ==
    AfterHead(ws_response) \o Flatten(SubSeq(rx_peer.chunks, 1, rx_delivered))

\* C21: once receive has been called on an upgraded connection, the buffer
\* it hands to decode_frame holds every byte read from the socket after the
\* header terminator of the upgrade response, in order and once: none of
\* them was dropped with the upgrade response.
C21_BytesAfterUpgrade ==
    (ws_result = OkStream /\ send_result = Ok(<<>>)) => rx_buffer = ReadPastHead

(***************************************************************************)
(* Application bytes and the transport they are written to                 *)
(***************************************************************************)
WriteOps == {"write_ok", "write_err"}

WsWriteSteps == {"write_request", "write_text_frame", "write_close_frame"}

\* C22: the HTTP request, the upgrade request and the WebSocket frames are
\* written to a connection's socket only after the TLS handshake and then
\* the offload installation succeeded on that same socket, and their writes
\* are submitted only in that situation; in fallback_new_connection nothing
\* is written to the TcpStream, and the duplicate is written only after the
\* software TLS stream has taken it.
C22_NoPlaintextWrite ==
    /\ \A i \in 1..Len(io_log) :
          io_log[i][2] \in WriteOps =>
              \/ /\ io_log[i][1] = "stream"
                 /\ \E j \in 1..(i - 1) : \E k \in (j + 1)..(i - 1) :
                        /\ io_log[j] = <<"stream", "handshake_ok">>
                        /\ io_log[k] = <<"stream", "offload_ok">>
                 /\ \A j \in 1..(i - 1) :
                        io_log[j] \notin {<<"stream", "handshake_err">>,
                                          <<"stream", "offload_err">>, <<"stream", "close">>}
              \/ /\ io_log[i][1] = "dup_fd"
                 /\ \E j \in 1..(i - 1) : io_log[j] = <<"dup_fd", "tls_stream">>
    /\ pc \in {"write", "read"} => handshake = "ok" /\ offload = "ok" /\ path = "ktls"
    /\ \A i \in 1..Len(ws_log) :
          ws_log[i][1] \in WsWriteSteps =>
              \E j \in 1..(i - 1) : \E k \in (j + 1)..(i - 1) :
                  /\ ws_log[j] = <<"handshake", "ok">>
                  /\ ws_log[k] = <<"offload", "ok">>
    /\ (wpc \in {"write", "read"} \/ ws_sent # <<>>) =>
          ws_handshake = "ok" /\ ws_offload = "ok" /\ ws_path = "ktls"

\* a request went over the fallback and its response was read through the
\* software TLS stream, the next one went over the offloaded socket, and the
\* WebSocket demo wrote its upgrade request, its text frame and its Close
\* frame
C22_Witness ==
    /\ results # {}
    /\ \E r \in results : r.path = "fallback"
    /\ \E r \in results : r.path = "ktls"
    /\ mpc = "done"
    /\ \A step \in WsWriteSteps : \E i \in 1..Len(ws_log) : ws_log[i] = <<step, "ok">>

(***************************************************************************)
(* Termination of https_request                                            *)
(***************************************************************************)
\* https_request has been called and has not returned
InFlight == pc \in {"connect", "write", "read", "fb_connect"}

\* https_request has returned a response or an error
Returned == pc = "done" /\ result.kind \in {"ok", "err"}

\* ktls_request has left its read loop
LoopEnded == pc = "done" /\ path = "ktls" /\ exchanged

\* C23: when every submitted operation completes and the server's data ends
\* with a close or a failure, a request that was started always returns, a
\* response or an error, over the offloaded socket as over the fallback;
\* and the read loop of ktls_request is left only after a read of 0 bytes
\* or a failed read, all of the data before it having been read.
C23_Terminates ==
    /\ InFlight ~> Returned
    /\ [](LoopEnded =>
            /\ last_read = ReadOk(<<>>) \/ last_read.kind = "err"
            /\ delivered = Len(srv_chunks))
    /\ [](pc = "read" => last_read = NoRead \/ (last_read.kind = "ok" /\ last_read.bytes # <<>>))

\* the second request returned a response read over the fallback after the
\* first had returned one read over the offloaded socket in two reads
C23_Witness ==
    /\ Returned
    /\ req = 2
    /\ path = "fallback"
    /\ result.kind = "ok"
    /\ \E r \in results : r.path = "ktls" /\ r.outcome[1] = "ok"
    /\ Len(srv_chunks) = 2

====
